---------------------------- MODULE Spec2Model ----------------------------
(***************************************************************************)
(* Model of the STL mesh generator of stl-conversational-maker             *)
(* (apps/web/lib/server/geometry: stl.ts and generator.ts).                *)
(*                                                                         *)
(* Numbers.  The program computes with IEEE doubles; the model computes in *)
(* fixed point.  A length is an integer number of micrometres (Unit = 1000 *)
(* per millimetre).  A cosine, a sine or a component of a unit normal is   *)
(* an integer scaled by TrigScale.  An angle is an integer number of       *)
(* Turn-ths of a full turn; every angle the program uses is a multiple of  *)
(* 2*pi/Turn.  Divisions round to the nearest integer.                     *)
(***************************************************************************)
EXTENDS Integers, Sequences, FiniteSets, TLC

Unit == 10^3
TrigScale == 10^4
Turn == 128 * 45
TwoPiScaled == 62832 + 0

Abs(a) == IF a < 0 THEN -a ELSE a
Max(a, b) == IF a >= b THEN a ELSE b
Min(a, b) == IF a <= b THEN a ELSE b

\* a / b rounded to the nearest integer, for b > 0.
RDiv(a, b) == (2 * a + b) \div (2 * b)

\* Product of two TrigScale-scaled numbers.
FMul(a, b) == RDiv(a * b, TrigScale)

RECURSIVE SqrtSearch(_, _, _)
SqrtSearch(n, lo, hi) ==
  IF lo >= hi THEN lo
  ELSE LET mid == (lo + hi + 1) \div 2
       IN IF mid * mid <= n THEN SqrtSearch(n, mid, hi) ELSE SqrtSearch(n, lo, mid - 1)

\* Math.sqrt on a non-negative integer: the integer part of the square root.
ISqrt(n) == SqrtSearch(n, 0, Min(n, 46340))

(***************************************************************************)
(* Math.sin and Math.cos.  The angle is reduced to the first quarter turn  *)
(* and the Taylor series is summed in Horner form up to the x^11 and x^10  *)
(* terms; the result is within 2/TrigScale of the true value.              *)
(***************************************************************************)
QuarterRadians(r) == RDiv(r * TwoPiScaled, Turn)

SinQ(r) ==
  LET x == QuarterRadians(r)
      x2 == FMul(x, x)
      t5 == TrigScale - RDiv(x2, 110)
      t4 == TrigScale - RDiv(FMul(x2, t5), 72)
      t3 == TrigScale - RDiv(FMul(x2, t4), 42)
      t2 == TrigScale - RDiv(FMul(x2, t3), 20)
      t1 == TrigScale - RDiv(FMul(x2, t2), 6)
  IN FMul(x, t1)

CosQ(r) ==
  LET x == QuarterRadians(r)
      x2 == FMul(x, x)
      t5 == TrigScale - RDiv(x2, 90)
      t4 == TrigScale - RDiv(FMul(x2, t5), 56)
      t3 == TrigScale - RDiv(FMul(x2, t4), 30)
      t2 == TrigScale - RDiv(FMul(x2, t3), 12)
  IN TrigScale - RDiv(FMul(x2, t2), 2)

\* One quarter turn of sine and cosine, tabulated once.
SinTable == [r \in 0..(Turn \div 4) |-> SinQ(r)]
CosTable == [r \in 0..(Turn \div 4) |-> CosQ(r)]

Sin(u) ==
  LET a == u % Turn
      q == a \div (Turn \div 4)
      r == a % (Turn \div 4)
  IN CASE q = 0 -> SinTable[r]
       [] q = 1 -> CosTable[r]
       [] q = 2 -> -SinTable[r]
       [] OTHER -> -CosTable[r]

Cos(u) ==
  LET a == u % Turn
      q == a \div (Turn \div 4)
      r == a % (Turn \div 4)
  IN CASE q = 0 -> CosTable[r]
       [] q = 1 -> -SinTable[r]
       [] q = 2 -> -CosTable[r]
       [] OTHER -> SinTable[r]

(***************************************************************************)
(* stl.ts: vectors, facet normals.                                         *)
(***************************************************************************)
Vec2(x, y) == [x |-> x, y |-> y]
Vec3(x, y, z) == [x |-> x, y |-> y, z |-> z]

subtract(a, b) == [x |-> a.x - b.x, y |-> a.y - b.y, z |-> a.z - b.z]

cross(a, b) ==
  [x |-> a.y * b.z - a.z * b.y,
   y |-> a.z * b.x - a.x * b.z,
   z |-> a.x * b.y - a.y * b.x]

MaxAbs3(v) == Max(Abs(v.x), Max(Abs(v.y), Abs(v.z)))

\* value / |value| for a non-zero value, scaled by TrigScale.  The components
\* are first brought into a range whose squares fit the model's integers.
UnitVector(value) ==
  LET m == MaxAbs3(value)
      d == (m \div 32768) + 1
      w == [x |-> RDiv(RDiv(value.x, d) * TrigScale, RDiv(m, d)),
            y |-> RDiv(RDiv(value.y, d) * TrigScale, RDiv(m, d)),
            z |-> RDiv(RDiv(value.z, d) * TrigScale, RDiv(m, d))]
      len == ISqrt(w.x * w.x + w.y * w.y + w.z * w.z)
  IN [x |-> RDiv(w.x * TrigScale, len),
      y |-> RDiv(w.y * TrigScale, len),
      z |-> RDiv(w.z * TrigScale, len)]

\* normalise with a unit vector as the result for a zero-length value.
normaliseUnitDefault(value) ==
  IF MaxAbs3(value) = 0 THEN [x |-> TrigScale, y |-> 0, z |-> 0] ELSE UnitVector(value)

(***************************************************************************)
(* normalise: length = Math.sqrt(x*x + y*y + z*z) || 1, then each          *)
(* component divided by length.  The square root is 0 exactly when every   *)
(* component is 0; length is then 1 and the result is value / 1.  The      *)
(* result is scaled by TrigScale.                                          *)
(***************************************************************************)
normalise(value) ==
  LET sqrtIsZero == MaxAbs3(value) = 0
      length == 1
  IN IF sqrtIsZero
     THEN [x |-> (value.x * TrigScale) \div length,
           y |-> (value.y * TrigScale) \div length,
           z |-> (value.z * TrigScale) \div length]
     ELSE UnitVector(value)

triangleNormal(triangle) ==
  LET a == triangle[1]
      b == triangle[2]
      c == triangle[3]
      u == subtract(b, a)
      v == subtract(c, a)
  IN normalise(cross(u, v))

(***************************************************************************)
(* generator.ts: loops in the plane.  A loop is a sequence of Vec2.        *)
(***************************************************************************)
Reverse(s) == [i \in 1..Len(s) |-> s[Len(s) + 1 - i]]

\* Body at the value of e, with e evaluated once.
With(e, Body(_)) == CHOOSE r \in {Body(x) : x \in {e}} : TRUE

RECURSIVE SumRange(_, _, _)
\* f[lo] + ... + f[hi]
SumRange(f, lo, hi) ==
  IF lo > hi THEN 0
  ELSE IF lo = hi THEN f[lo]
  ELSE LET mid == (lo + hi) \div 2
       IN SumRange(f, lo, mid) + SumRange(f, mid + 1, hi)

\* f[1] + ... + f[n]
SumTo(f, n) == SumRange(f, 1, n)

RECURSIVE Flatten(_)
\* The concatenation of a sequence of sequences.
Flatten(ss) == IF ss = <<>> THEN <<>> ELSE Head(ss) \o Flatten(Tail(ss))

\* The shoelace total of signedArea, before its division by 2 (the model
\* keeps the integer; the sign is that of total / 2).
signedAreaTwice(points) ==
  LET n == Len(points)
      term == [index \in 1..n |->
                 LET current == points[index]
                     next == points[(index % n) + 1]
                 IN current.x * next.y - next.x * current.y]
  IN With(term, LAMBDA total : SumTo(total, n))

\* enforceOrientation without the reversal.
enforceOrientationNever(points, clockwise) == points

\* enforceOrientation reversing whatever the area.
enforceOrientationAlways(points, clockwise) == Reverse(points)

\* enforceOrientation with the comparison inverted.
enforceOrientationInverted(points, clockwise) ==
  IF (signedAreaTwice(points) < 0) # clockwise THEN points ELSE Reverse(points)

enforceOrientation(points, clockwise) ==
  LET area == signedAreaTwice(points)
      isClockwise == area < 0
  IN IF isClockwise = clockwise THEN points ELSE Reverse(points)

toVec3(point, z) == [x |-> point.x, y |-> point.y, z |-> z]

(***************************************************************************)
(* extrudePolygon, in the three parts the call to earcut separates: the    *)
(* normalised loops and the arguments of earcut; the cap triangles made of *)
(* earcut's result; the wall triangles.                                    *)
(***************************************************************************)
NormalisedOuter(outerRaw) == enforceOrientation(outerRaw, FALSE)
NormalisedHoles(holesRaw) ==
  [h \in 1..Len(holesRaw) |-> enforceOrientation(holesRaw[h], TRUE)]

\* allPoints: the outer loop's points, then each hole's.
AllPoints(outer, holes) == outer \o Flatten(holes)

\* flattened: x, y of each point of allPoints.
Flattened(outer, holes) ==
  LET pts == AllPoints(outer, holes)
  IN [k \in 1..(2 * Len(pts)) |->
        IF k % 2 = 1 THEN pts[(k + 1) \div 2].x ELSE pts[k \div 2].y]

\* holeIndices recording the number of points of the holes before, without
\* the outer loop's.
HoleIndicesFromHoles(outer, holes) ==
  [h \in 1..Len(holes) |-> SumTo([g \in 1..Len(holes) |-> Len(holes[g])], h - 1)]

\* holeIndices: allPoints.length at the moment each hole is reached.
HoleIndices(outer, holes) ==
  [h \in 1..Len(holes) |->
     Len(outer) + SumTo([g \in 1..Len(holes) |-> Len(holes[g])], h - 1)]

\* The cap loop emitting the top triangle only.
CapTrianglesTopOnly(allPoints, indices, thickness) ==
  [k \in 1..(Len(indices) \div 3) |->
     <<toVec3(allPoints[indices[3 * k - 2] + 1], thickness),
       toVec3(allPoints[indices[3 * k - 1] + 1], thickness),
       toVec3(allPoints[indices[3 * k] + 1], thickness)>>]

\* The cap loop with the bottom triangle in the top triangle's vertex order.
CapTrianglesSameOrder(allPoints, indices, thickness) ==
  LET count == Len(indices) \div 3
  IN [k \in 1..(2 * count) |->
        LET t == (k + 1) \div 2
            a == allPoints[indices[3 * t - 2] + 1]
            b == allPoints[indices[3 * t - 1] + 1]
            c == allPoints[indices[3 * t] + 1]
        IN IF k % 2 = 1
           THEN <<toVec3(a, thickness), toVec3(b, thickness), toVec3(c, thickness)>>
           ELSE <<toVec3(a, 0), toVec3(b, 0), toVec3(c, 0)>>]

\* The cap loop pushing the bottom triangle before the top triangle.
CapTrianglesBottomFirst(allPoints, indices, thickness) ==
  LET count == (Len(indices) + 2) \div 3
  IN [k \in 1..(2 * count) |->
        LET t == (k + 1) \div 2
            a == allPoints[indices[3 * t - 2] + 1]
            b == allPoints[indices[3 * t - 1] + 1]
            c == allPoints[indices[3 * t] + 1]
        IN IF k % 2 = 0
           THEN <<toVec3(a, thickness), toVec3(b, thickness), toVec3(c, thickness)>>
           ELSE <<toVec3(a, 0), toVec3(c, 0), toVec3(b, 0)>>]

\* for (index = 0; index < indices.length; index += 3): one top and one
\* bottom triangle per index triple; indices are 0-based, sequences 1-based.
CapTriangles(allPoints, indices, thickness) ==
  LET count == (Len(indices) + 2) \div 3
  IN [k \in 1..(2 * count) |->
        LET t == (k + 1) \div 2
            a == allPoints[indices[3 * t - 2] + 1]
            b == allPoints[indices[3 * t - 1] + 1]
            c == allPoints[indices[3 * t] + 1]
        IN IF k % 2 = 1
           THEN <<toVec3(a, thickness), toVec3(b, thickness), toVec3(c, thickness)>>
           ELSE <<toVec3(a, 0), toVec3(c, 0), toVec3(b, 0)>>]

\* The two wall triangles of each edge of one loop.
LoopWalls(loop, thickness) ==
  LET n == Len(loop)
  IN [k \in 1..(2 * n) |->
        LET index == (k + 1) \div 2
            current == loop[index]
            next == loop[(index % n) + 1]
            b0 == toVec3(current, 0)
            b1 == toVec3(next, 0)
            t0 == toVec3(current, thickness)
            t1 == toVec3(next, thickness)
        IN IF k % 2 = 1 THEN <<b0, b1, t1>> ELSE <<b0, t1, t0>>]

\* The wall loop over the outer loop only.
WallTrianglesOuterOnly(outer, holes, thickness) == LoopWalls(outer, thickness)

\* loops = [outer, ...holes]
WallTriangles(outer, holes, thickness) ==
  LoopWalls(outer, thickness)
    \o Flatten([h \in 1..Len(holes) |-> LoopWalls(holes[h], thickness)])

\* extrudePolygon, given what earcut returned.
extrudePolygon(outerRaw, holesRaw, thickness, indices) ==
  With(NormalisedOuter(outerRaw), LAMBDA outer :
    With(NormalisedHoles(holesRaw), LAMBDA holes :
      With(AllPoints(outer, holes), LAMBDA allPoints :
        CapTriangles(allPoints, indices, thickness)
          \o WallTriangles(outer, holes, thickness))))

(***************************************************************************)
(* generator.ts: numbers as the program receives them.  A dimension of a   *)
(* ModelSpec is a number or is absent; a number is finite, NaN, Infinity   *)
(* or -Infinity.  A finite number is v micrometres and f tenths of a       *)
(* micrometre, f in 0..9; the geometry carries lengths to the micrometre.  *)
(***************************************************************************)
Fine(v, f) == [k |-> "number", v |-> v, f |-> f]
Num(v) == Fine(v, 0)
NaN == [k |-> "NaN", v |-> 0, f |-> 0]
PosInfinity == [k |-> "Infinity", v |-> 0, f |-> 0]
NegInfinity == [k |-> "-Infinity", v |-> 0, f |-> 0]
Undefined == [k |-> "undefined", v |-> 0, f |-> 0]

\* A decimal literal n/d millimetres, and the product of a length by n/d.
Dec(n, d) == (n * Unit) \div d
Scaled(length, n, d) == RDiv(length * n, d)

\* asFinite returning the value whatever it is (0 for a value that is no
\* finite number).
asFiniteUnchecked(value, fallback) == value.v

\* asFinite: typeof value === "number" ? value : Number(value), and the
\* fallback unless Number.isFinite.  Number(undefined) is NaN.
asFinite(value, fallback) ==
  LET numeric == IF value.k = "undefined" THEN NaN ELSE value
  IN IF numeric.k # "number" THEN fallback ELSE numeric.v

\* a ?? b
Nullish(a, b) == IF a.k = "undefined" THEN b ELSE a

\* circlePoints with index <= segments: the first point repeated at the end.
circlePointsClosed(radiusX, radiusY, segments, centre) ==
  [i \in 1..(segments + 1) |->
     LET theta == RDiv((i - 1) * Turn, segments)
     IN [x |-> centre.x + RDiv(radiusX * Cos(theta), TrigScale),
         y |-> centre.y + RDiv(radiusY * Sin(theta), TrigScale)]]

circlePoints(radiusX, radiusY, segments, centre) ==
  [i \in 1..segments |->
     LET index == i - 1
         theta == RDiv(index * Turn, segments)
     IN [x |-> centre.x + RDiv(radiusX * Cos(theta), TrigScale),
         y |-> centre.y + RDiv(radiusY * Sin(theta), TrigScale)]]

Origin == [x |-> 0, y |-> 0]

roundedSquareOutline(width, height) ==
  LET radius == Max(Dec(8, 10), Scaled(Min(width, height), 14, 100))
      stepCount == 8
      halfWidth == RDiv(width, 2)
      halfHeight == RDiv(height, 2)
      x == halfWidth - radius
      y == halfHeight - radius
      quarter == Turn \div 4
      corners ==
        <<[centre |-> [x |-> x, y |-> y], start |-> Turn - quarter, end |-> Turn],
          [centre |-> [x |-> x, y |-> -y], start |-> 0, end |-> quarter],
          [centre |-> [x |-> -x, y |-> -y], start |-> quarter, end |-> 2 * quarter],
          [centre |-> [x |-> -x, y |-> y], start |-> 2 * quarter, end |-> 3 * quarter]>>
  IN [i \in 1..(4 * stepCount) |->
        LET corner == corners[((i - 1) \div stepCount) + 1]
            step == (i - 1) % stepCount
            theta == corner.start + ((corner.end - corner.start) * step) \div stepCount
        IN [x |-> corner.centre.x + RDiv(radius * Cos(theta), TrigScale),
            y |-> corner.centre.y + RDiv(radius * Sin(theta), TrigScale)]]

starOutline(width, height) ==
  LET radiusOuter == RDiv(Min(width, height), 2)
      radiusInner == Scaled(radiusOuter, 45, 100)
  IN [i \in 1..10 |->
        LET index == i - 1
            theta == (Turn \div 10) * index + Turn - (Turn \div 4)
            radius == IF index % 2 = 0 THEN radiusOuter ELSE radiusInner
        IN [x |-> RDiv(radius * Cos(theta), TrigScale),
            y |-> RDiv(radius * Sin(theta), TrigScale)]]

\* The raw heart curve, 120 samples, each coordinate scaled by TrigScale / 32:
\* x = 16 sin^3, y = 13 cos - 5 cos 2 - 2 cos 3 - cos 4.
HeartRaw ==
  [i \in 1..120 |->
     LET theta == ((i - 1) * Turn) \div 120
         sine == Sin(theta)
     IN [x |-> RDiv(16 * FMul(FMul(sine, sine), sine), 32),
         y |-> RDiv(13 * Cos(theta) - 5 * Cos(2 * theta) - 2 * Cos(3 * theta)
                      - Cos(4 * theta), 32)]]

MinOf(S) == CHOOSE m \in S : \A v \in S : m <= v
MaxOf(S) == CHOOSE m \in S : \A v \in S : m >= v

HeartMinX == MinOf({HeartRaw[i].x : i \in 1..120})
HeartMaxX == MaxOf({HeartRaw[i].x : i \in 1..120})
HeartMinY == MinOf({HeartRaw[i].y : i \in 1..120})
HeartMaxY == MaxOf({HeartRaw[i].y : i \in 1..120})

\* heartOutline: the raw curve remapped to width x height about the origin:
\* ((p - min) / source - 0.5) * size.
heartOutline(width, height) ==
  LET sourceWidth == IF HeartMaxX - HeartMinX = 0 THEN 1 ELSE HeartMaxX - HeartMinX
      sourceHeight == IF HeartMaxY - HeartMinY = 0 THEN 1 ELSE HeartMaxY - HeartMinY
  IN [i \in 1..120 |->
        [x |-> RDiv(2 * (HeartRaw[i].x - HeartMinX) * width - sourceWidth * width,
                    2 * sourceWidth),
         y |-> RDiv(2 * (HeartRaw[i].y - HeartMinY) * height - sourceHeight * height,
                    2 * sourceHeight)]]

\* Math.sqrt of a TrigScale-scaled number in 0..TrigScale.
FSqrt(p) == ISqrt(p * TrigScale)

\* Math.pow(pulse, 1.7) for pulse in 0..1: pulse times pulse^0.7, the latter
\* as the product of the roots pulse^(1/2), ^(1/8), ^(1/16), ^(1/128),
\* ^(1/256) (0.7 = 0.10110011... in binary).
Pow17(pulse) ==
  LET s1 == FSqrt(pulse)
      s2 == FSqrt(s1)
      s3 == FSqrt(s2)
      s4 == FSqrt(s3)
      s5 == FSqrt(s4)
      s6 == FSqrt(s5)
      s7 == FSqrt(s6)
      s8 == FSqrt(s7)
  IN IF pulse = 0 THEN 0
     ELSE FMul(pulse, FMul(s1, FMul(s3, FMul(s4, FMul(s7, s8)))))

\* Math.pow(Math.max(0, Math.cos(theta * 3)), 1.7) at each of the 180 samples.
SpinnerPulse ==
  [i \in 1..180 |-> Pow17(Max(0, Cos(3 * (((i - 1) * Turn) \div 180))))]

spinnerOutline(width, height) ==
  LET diameter == Min(width, height)
      samples == 180
      core == Scaled(diameter, 23, 100)
      lobe == Scaled(diameter, 17, 100)
  IN [i \in 1..samples |->
        LET theta == ((i - 1) * Turn) \div samples
            radius == core + RDiv(lobe * SpinnerPulse[i], TrigScale)
        IN [x |-> RDiv(radius * Cos(theta), TrigScale),
            y |-> RDiv(radius * Sin(theta), TrigScale)]]

shapeOutline(shape, width, height) ==
  IF shape = "heart" THEN heartOutline(width, height)
  ELSE IF shape = "star" THEN starOutline(width, height)
  ELSE IF shape = "rounded_square" THEN roundedSquareOutline(width, height)
  ELSE circlePoints(RDiv(width, 2), RDiv(height, 2), 96, Origin)

\* The array passed to enforceOrientation as it is after the call, were the
\* reversal made in place: points.reverse().
pointsReversedInPlace(points, clockwise) == enforceOrientation(points, clockwise)

\* The array passed to enforceOrientation as it is after the call:
\* [...points].reverse() reverses a copy, and nothing else writes to points.
pointsAfterEnforceOrientation(points, clockwise) == points

\* Math.max(0.8, asFinite(thickness, 2)) without the Math.max.
effectiveThicknessUnclamped(spec) == asFinite(spec.dimensionsMm.thickness, 2 * Unit)

\* generateStl: the thickness it passes to the mesh builders.
effectiveThickness(spec) ==
  Max(Dec(8, 10), asFinite(spec.dimensionsMm.thickness, 2 * Unit))

\* The inner diameter with the band width subtracted once.
ringInnerDiameterOneBand(outerDiameter, bandWidth) ==
  Max(outerDiameter - bandWidth, 8 * Unit)

ringInnerDiameter(outerDiameter, bandWidth) ==
  Max(outerDiameter - bandWidth * 2, 8 * Unit)

\* buildRingTriangles up to its call of extrudePolygon: the loops it passes.
buildRingTriangles(dimensions) ==
  LET outerDiameter == asFinite(dimensions.outer_diameter, 22 * Unit)
      bandWidth == asFinite(dimensions.band_width, 4 * Unit)
      innerDiameter == ringInnerDiameter(outerDiameter, bandWidth)
      outer == circlePoints(RDiv(outerDiameter, 2), RDiv(outerDiameter, 2), 128, Origin)
      inner == circlePoints(RDiv(innerDiameter, 2), RDiv(innerDiameter, 2), 96, Origin)
  IN [outer |-> outer, holes |-> <<inner>>]

\* The height falling back to 24 mm instead of the width.
flatHeightDefault(dimensions, width) == asFinite(dimensions.height, 24 * Unit)

flatWidth(dimensions) ==
  asFinite(Nullish(dimensions.width, dimensions.outer_diameter), 24 * Unit)

flatHeight(dimensions, width) == asFinite(dimensions.height, width)

\* The hole list with the spinner's hole moved to the hanging position.
flatHolesSpinnerOffset(objectClass, dimensions, height) ==
  LET holeDiameter == Max(Dec(16, 10), asFinite(dimensions.hole_diameter, 2 * Unit))
      centreY == RDiv(height, 2) - Max(Scaled(holeDiameter, 12, 10), 2 * Unit)
      centreHoleDiameter == Max(6 * Unit, asFinite(dimensions.hole_diameter, 22 * Unit))
  IN (IF objectClass \in {"earring", "pendant"}
      THEN <<circlePoints(RDiv(holeDiameter, 2), RDiv(holeDiameter, 2), 48,
                          [x |-> 0, y |-> centreY])>>
      ELSE <<>>)
     \o
     (IF objectClass = "fidget_spinner"
      THEN <<circlePoints(RDiv(centreHoleDiameter, 2), RDiv(centreHoleDiameter, 2), 64,
                          [x |-> 0, y |-> centreY])>>
      ELSE <<>>)

\* buildFlatShapeTriangles: the holes it pushes.
flatHoles(objectClass, dimensions, height) ==
  LET holeDiameter == Max(Dec(16, 10), asFinite(dimensions.hole_diameter, 2 * Unit))
      centreY == RDiv(height, 2) - Max(Scaled(holeDiameter, 12, 10), 2 * Unit)
      centreHoleDiameter == Max(6 * Unit, asFinite(dimensions.hole_diameter, 22 * Unit))
  IN (IF objectClass \in {"earring", "pendant"}
      THEN <<circlePoints(RDiv(holeDiameter, 2), RDiv(holeDiameter, 2), 48,
                          [x |-> 0, y |-> centreY])>>
      ELSE <<>>)
     \o
     (IF objectClass = "fidget_spinner"
      THEN <<circlePoints(RDiv(centreHoleDiameter, 2), RDiv(centreHoleDiameter, 2), 64,
                          Origin)>>
      ELSE <<>>)

\* buildFlatShapeTriangles up to its call of extrudePolygon: the resolved
\* width and height and the loops it passes.
buildFlatShapeTriangles(spec) ==
  LET dimensions == spec.dimensionsMm
      width == flatWidth(dimensions)
      height == flatHeight(dimensions, width)
      outer == IF spec.objectClass = "fidget_spinner"
               THEN spinnerOutline(width, height)
               ELSE shapeOutline(spec.shape, width, height)
  IN [outer |-> outer,
      holes |-> flatHoles(spec.objectClass, dimensions, height),
      width |-> width,
      height |-> height]

(***************************************************************************)
(* earcut.  The triangulator is an external library; the model takes its   *)
(* result as a choice among the index lists below: the lists its contract  *)
(* allows (section 6: triples of indices into the buffer that cover the    *)
(* polygon-with-holes without overlap), and short arbitrary lists of       *)
(* in-range triples.  The predicates are exact integer tests.              *)
(***************************************************************************)
MaxArbTriples == 1
MaxArbIndex == 2
MaxCoverVertices == 6
MaxArbVertices == 8

\* Twice the signed area of triangle p q r: positive when counter-clockwise.
Orient(p, q, r) == (q.x - p.x) * (r.y - p.y) - (q.y - p.y) * (r.x - p.x)

\* The k-th index triple of a flat index list, and its three points.
TripleAt(indices, k) == <<indices[3 * k - 2], indices[3 * k - 1], indices[3 * k]>>
TriplePoints(pts, t) == <<pts[t[1] + 1], pts[t[2] + 1], pts[t[3] + 1]>>

\* The interiors of two counter-clockwise triangles are disjoint: an edge of
\* one has the other on its outer side.
TriTriDisjoint(s, t) ==
  \/ \E e \in 1..3 : \A v \in 1..3 : Orient(s[e], s[(e % 3) + 1], t[v]) <= 0
  \/ \E e \in 1..3 : \A v \in 1..3 : Orient(t[e], t[(e % 3) + 1], s[v]) <= 0

\* The segment p q does not enter the interior of counter-clockwise triangle t.
SegMissesTri(p, q, t) ==
  \/ \E e \in 1..3 : /\ Orient(t[e], t[(e % 3) + 1], p) <= 0
                     /\ Orient(t[e], t[(e % 3) + 1], q) <= 0
  \/ /\ p # q
     /\ \/ \A v \in 1..3 : Orient(p, q, t[v]) >= 0
        \/ \A v \in 1..3 : Orient(p, q, t[v]) <= 0

\* Point c lies inside the loop (even-odd rule); both scaled by 3.
PointInLoop(c, loop) ==
  LET n == Len(loop)
      Crossing(i) ==
        LET a == [x |-> 3 * loop[i].x, y |-> 3 * loop[i].y]
            b == [x |-> 3 * loop[(i % n) + 1].x, y |-> 3 * loop[(i % n) + 1].y]
        IN /\ (a.y > c.y) # (b.y > c.y)
           /\ IF b.y > a.y THEN Orient(a, b, c) > 0 ELSE Orient(a, b, c) < 0
  IN Cardinality({i \in 1..n : Crossing(i)}) % 2 = 1

\* Triangle t lies in the polygon: no loop edge enters its interior and its
\* centroid is inside the outer loop and outside every hole.
TriInside(t, outer, holes) ==
  LET c == [x |-> t[1].x + t[2].x + t[3].x, y |-> t[1].y + t[2].y + t[3].y]
      EdgesMiss(loop) ==
        \A i \in 1..Len(loop) : SegMissesTri(loop[i], loop[(i % Len(loop)) + 1], t)
  IN /\ EdgesMiss(outer)
     /\ \A h \in 1..Len(holes) : EdgesMiss(holes[h])
     /\ PointInLoop(c, outer)
     /\ \A h \in 1..Len(holes) : ~PointInLoop(c, holes[h])

\* Twice the area of the polygon-with-holes (holes are clockwise: negative).
PolygonAreaTwice(outer, holes) ==
  signedAreaTwice(outer)
    + SumTo([h \in 1..Len(holes) |-> signedAreaTwice(holes[h])], Len(holes))

\* The index list covers the polygon-with-holes without overlap, with
\* counter-clockwise triples.
IsCover(outer, holes, indices) ==
  LET pts == AllPoints(outer, holes)
      count == Len(indices) \div 3
      T(k) == TriplePoints(pts, TripleAt(indices, k))
  IN /\ Len(indices) = 3 * count
     /\ \A k \in 1..count : Orient(T(k)[1], T(k)[2], T(k)[3]) > 0
     /\ \A k \in 1..count : TriInside(T(k), outer, holes)
     /\ \A j \in 1..count : \A k \in 1..count : j < k => TriTriDisjoint(T(j), T(k))
     /\ SumTo([k \in 1..count |-> Orient(T(k)[1], T(k)[2], T(k)[3])], count)
          = PolygonAreaTwice(outer, holes)

\* Every sequence of at most n elements of set S.
RECURSIVE SeqsUpTo(_, _)
SeqsUpTo(S, n) ==
  IF n = 0 THEN {<<>>}
  ELSE LET shorter == SeqsUpTo(S, n - 1)
       IN shorter \cup {Append(q, e) : q \in {r \in shorter : Len(r) = n - 1}, e \in S}

\* Short lists of arbitrary in-range index triples.
ArbitraryOutputs(n) ==
  LET I == 0..Min(n - 1, MaxArbIndex)
      triples == {<<a, b, c>> : a \in I, b \in I, c \in I}
  IN {Flatten(q) : q \in SeqsUpTo(triples, MaxArbTriples)}

\* A set of index triples as a list, smallest triple first.
RECURSIVE SortedTriples(_, _)
SortedTriples(S, n) ==
  IF S = {} THEN <<>>
  ELSE LET Code(t) == (t[1] * n + t[2]) * n + t[3]
           least == CHOOSE t \in S : \A u \in S : Code(t) <= Code(u)
       IN <<least>> \o SortedTriples(S \ {least}, n)

\* The counter-clockwise triples that lie in the polygon, smallest index first.
CandidateTriples(outer, holes) ==
  LET pts == AllPoints(outer, holes)
      I == 0..(Len(pts) - 1)
  IN {t \in {<<a, b, c>> : a \in I, b \in I, c \in I} :
        /\ t[1] < t[2] /\ t[1] < t[3] /\ t[2] # t[3]
        /\ Orient(pts[t[1] + 1], pts[t[2] + 1], pts[t[3] + 1]) > 0
        /\ TriInside(TriplePoints(pts, t), outer, holes)}

RECURSIVE TriplesAreaTwice(_, _)
\* Twice the total area of a set of index triples.
TriplesAreaTwice(S, pts) ==
  IF S = {} THEN 0
  ELSE LET t == CHOOSE u \in S : TRUE
       IN Orient(pts[t[1] + 1], pts[t[2] + 1], pts[t[3] + 1])
            + TriplesAreaTwice(S \ {t}, pts)

\* The lists earcut's contract allows: each set of candidate triples that
\* covers the polygon (pairwise disjoint, of the polygon's area), in
\* ascending and in descending order.
CoverOutputs(outer, holes) ==
  LET pts == AllPoints(outer, holes)
      n == Len(pts)
      covers == {S \in SUBSET CandidateTriples(outer, holes) :
                   /\ \A s \in S : \A t \in S :
                        s # t => TriTriDisjoint(TriplePoints(pts, s), TriplePoints(pts, t))
                   /\ TriplesAreaTwice(S, pts) = PolygonAreaTwice(outer, holes)}
  IN IF n > MaxCoverVertices THEN {}
     ELSE {Flatten(SortedTriples(S, n)) : S \in covers}
            \cup {Flatten(Reverse(SortedTriples(S, n))) : S \in covers}

\* For a buffer of more than MaxArbVertices points the result is one of three
\* lists: the empty list, one triple, and the fan over the outer loop.
SampleOutputs(outer, holes) ==
  {<<>>,
   <<0, 1, 2>>,
   [k \in 1..(3 * (Len(outer) - 2)) |->
      LET i == ((k - 1) \div 3) + 1
      IN CASE (k - 1) % 3 = 0 -> 0
           [] (k - 1) % 3 = 1 -> i
           [] (k - 1) % 3 = 2 -> i + 1]}

EarcutOutputs(outer, holes) ==
  IF Len(AllPoints(outer, holes)) > MaxArbVertices
  THEN SampleOutputs(outer, holes)
  ELSE ArbitraryOutputs(Len(AllPoints(outer, holes))) \cup CoverOutputs(outer, holes)

(***************************************************************************)
(* State.  One call is followed from its start to its return.              *)
(***************************************************************************)
(***************************************************************************)
(* Strings.  A string is the sequence of its characters.                   *)
(***************************************************************************)
Letters ==
  {"a", "b", "c", "d", "e", "f", "g", "h", "i", "j", "k", "l", "m",
   "n", "o", "p", "q", "r", "s", "t", "u", "v", "w", "x", "y", "z",
   "A", "B", "C", "D", "E", "F", "G", "H", "I", "J", "K", "L", "M",
   "N", "O", "P", "Q", "R", "S", "T", "U", "V", "W", "X", "Y", "Z"}
Digits == {"0", "1", "2", "3", "4", "5", "6", "7", "8", "9"}

\* The character class [a-z0-9_-] under the i flag.
StemChars == Letters \cup Digits \cup {"_", "-"}

\* value.replace(/<class>+/g, by): each maximal run of characters of the class
\* becomes by.
ReplaceRuns(value, class, by) ==
  Flatten([i \in 1..Len(value) |->
             IF value[i] \in class
             THEN IF i > 1 /\ value[i - 1] \in class THEN <<>> ELSE by
             ELSE <<value[i]>>])

\* value.replace(/^-|-$/g, ""): a hyphen at the start is removed, and a
\* hyphen at the end of what is left.
TrimHyphens(value) ==
  LET afterStart == IF value # <<>> /\ Head(value) = "-" THEN Tail(value) ELSE value
  IN IF afterStart # <<>> /\ afterStart[Len(afterStart)] = "-"
     THEN SubSeq(afterStart, 1, Len(afterStart) - 1)
     ELSE afterStart

\* sanitiseFileStem without the second replace.
sanitiseFileStemNoCollapse(value) ==
  TrimHyphens(ReplaceRuns(value, {c \in {value[i] : i \in 1..Len(value)} : c \notin StemChars},
                          <<"-">>))

sanitiseFileStem(value) ==
  LET others == {c \in {value[i] : i \in 1..Len(value)} : c \notin StemChars}
      replaced == ReplaceRuns(value, others, <<"-">>)
      collapsed == ReplaceRuns(replaced, {"-"}, <<"-">>)
  IN TrimHyphens(collapsed)

(***************************************************************************)
(* writeAsciiStl.  The text is the sequence of its lines (lines.join("\n")) *)
(* and a line is its literal text followed by the name or the numbers it   *)
(* ends with, each number as toFixed(6) prints it.                         *)
(***************************************************************************)
\* value.toFixed(6) for a value of value / scale: the decimal numeral with six
\* digits after the point, held as the number of millionths it denotes.
toFixed6(value, scale) == value * ((10^6) \div scale)

Line(text, name, numbers) == <<text>> \o name \o numbers

\* formatVertex
formatVertex(vertex) ==
  <<toFixed6(vertex.x, Unit), toFixed6(vertex.y, Unit), toFixed6(vertex.z, Unit)>>

\* The seven lines pushed for one triangle.
FacetLine(triangle, position) ==
  CASE position = 0 ->
         LET normal == triangleNormal(triangle)
         IN Line("  facet normal ", <<>>,
                 <<toFixed6(normal.x, TrigScale), toFixed6(normal.y, TrigScale),
                   toFixed6(normal.z, TrigScale)>>)
    [] position = 1 -> Line("    outer loop", <<>>, <<>>)
    [] position = 2 -> Line("      vertex ", <<>>, formatVertex(triangle[1]))
    [] position = 3 -> Line("      vertex ", <<>>, formatVertex(triangle[2]))
    [] position = 4 -> Line("      vertex ", <<>>, formatVertex(triangle[3]))
    [] position = 5 -> Line("    endloop", <<>>, <<>>)
    [] position = 6 -> Line("  endfacet", <<>>, <<>>)

\* writeAsciiStl printing the vertices of a facet in the order 0, 2, 1.
writeAsciiStlSwapped(name, triangles) ==
  [k \in 1..(7 * Len(triangles) + 2) |->
     IF k = 1 THEN Line("solid ", name, <<>>)
     ELSE IF k = 7 * Len(triangles) + 2 THEN Line("endsolid ", name, <<>>)
     ELSE LET t == triangles[((k - 2) \div 7) + 1]
          IN FacetLine(<<t[1], t[3], t[2]>>, (k - 2) % 7)]

writeAsciiStl(name, triangles) ==
  [k \in 1..(7 * Len(triangles) + 2) |->
     IF k = 1 THEN Line("solid ", name, <<>>)
     ELSE IF k = 7 * Len(triangles) + 2 THEN Line("endsolid ", name, <<>>)
     ELSE FacetLine(triangles[((k - 2) \div 7) + 1], (k - 2) % 7)]

\* The characters of the object classes and shapes.
Chars(word) ==
  CASE word = "earring" -> <<"e", "a", "r", "r", "i", "n", "g">>
    [] word = "pendant" -> <<"p", "e", "n", "d", "a", "n", "t">>
    [] word = "ring" -> <<"r", "i", "n", "g">>
    [] word = "fidget_token" ->
         <<"f", "i", "d", "g", "e", "t", "_", "t", "o", "k", "e", "n">>
    [] word = "fidget_spinner" ->
         <<"f", "i", "d", "g", "e", "t", "_", "s", "p", "i", "n", "n", "e", "r">>
    [] word = "circle" -> <<"c", "i", "r", "c", "l", "e">>
    [] word = "heart" -> <<"h", "e", "a", "r", "t">>
    [] word = "star" -> <<"s", "t", "a", "r">>
    [] word = "rounded_square" ->
         <<"r", "o", "u", "n", "d", "e", "d", "_", "s", "q", "u", "a", "r", "e">>
    [] word = "custom_outline" ->
         <<"c", "u", "s", "t", "o", "m", "_", "o", "u", "t", "l", "i", "n", "e">>
    [] word = "none" -> <<"n", "o", "n", "e">>
    [] word = "bracelet" -> <<"b", "r", "a", "c", "e", "l", "e", "t">>
    [] word = "hexagon" -> <<"h", "e", "x", "a", "g", "o", "n">>

\* fileName.replace(/\.stl$/i, "") leaving the name as it is.
removeStlSuffixNever(fileName) == fileName

\* fileName.replace(/\.stl$/i, "")
removeStlSuffix(fileName) ==
  LET n == Len(fileName)
  IN IF /\ n >= 4
        /\ fileName[n - 3] = "."
        /\ fileName[n - 2] \in {"s", "S"}
        /\ fileName[n - 1] \in {"t", "T"}
        /\ fileName[n] \in {"l", "L"}
     THEN SubSeq(fileName, 1, n - 4)
     ELSE fileName

\* generateStl: the file name.
stlFileName(spec) ==
  sanitiseFileStem(Chars(spec.objectClass) \o <<"-">> \o Chars(spec.shape))
    \o <<".", "s", "t", "l">>

(***************************************************************************)
(* constraints.ts                                                          *)
(***************************************************************************)
Null == [k |-> "null", v |-> 0, f |-> 0]

\* a >= b and a <= b on numbers: false when either is NaN.
NumGeq(a, b) ==
  /\ a.k = "number"
  /\ b.k = "number"
  /\ 10 * a.v + a.f >= 10 * b.v + b.f
NumLeq(a, b) ==
  /\ a.k = "number"
  /\ b.k = "number"
  /\ 10 * a.v + a.f <= 10 * b.v + b.f

\* OBJECT_THICKNESS_FLOOR_MM[objectClass]: undefined for any other key.
OBJECT_THICKNESS_FLOOR_MM(objectClass) ==
  CASE objectClass = "earring" -> Num(Dec(18, 10))
    [] objectClass = "pendant" -> Num(2 * Unit)
    [] objectClass = "ring" -> Num(2 * Unit)
    [] objectClass = "fidget_token" -> Num(3 * Unit)
    [] objectClass = "fidget_spinner" -> Num(5 * Unit)
    [] OTHER -> Undefined

\* Math.max(a, b) for a finite a: NaN when b is no number.
MathMax(a, b) ==
  IF b.k # "number" THEN NaN
  ELSE IF NumGeq(a, b) THEN a ELSE b

\* asFinite of constraints.ts: the number, or null when it is not finite.
constraintsAsFinite(value) ==
  LET numeric == IF value.k = "undefined" THEN NaN ELSE value
  IN IF numeric.k # "number" THEN Null ELSE numeric

\* Number(current.toFixed(3)): the nearest multiple of 0.001.
toFixed3(current) == Num(IF current.f >= 5 THEN current.v + 1 ELSE current.v)

\* setIfAdjusted reporting the old value as it is.
setIfAdjustedUnrounded(state, field, minimum, reason) ==
  LET current == constraintsAsFinite(state.dimensions[field])
  IN IF current = Null \/ NumGeq(current, minimum) THEN state
     ELSE [dimensions |-> [state.dimensions EXCEPT ![field] = minimum],
           adjustments |-> Append(state.adjustments,
                                  [field |-> field, from |-> current,
                                   to |-> minimum, reason |-> reason])]

\* setIfAdjusted on the dimensions and adjustments it is given, which it
\* changes in place; the result is their state afterwards.
setIfAdjusted(state, field, minimum, reason) ==
  LET current == constraintsAsFinite(state.dimensions[field])
  IN IF current = Null \/ NumGeq(current, minimum) THEN state
     ELSE [dimensions |-> [state.dimensions EXCEPT ![field] = minimum],
           adjustments |-> Append(state.adjustments,
                                  [field |-> field, from |-> toFixed3(current),
                                   to |-> minimum, reason |-> reason])]

\* One round of the loop over width, height and outer_diameter.
capDimension(state, field, maxDimensionsMm) ==
  LET current == constraintsAsFinite(state.dimensions[field])
  IN IF current = Null \/ NumLeq(current, maxDimensionsMm) THEN state
     ELSE [dimensions |-> [state.dimensions EXCEPT ![field] = maxDimensionsMm],
           adjustments |->
             Append(state.adjustments,
                    [field |-> field, from |-> toFixed3(current),
                     to |-> maxDimensionsMm,
                     reason |-> "Reduced dimension to the configured maximum printable size."])]

applyPrintabilityConstraints(spec, options) ==
  LET maxDimensionsMm == Nullish(options.maxDimensionsMm, Num(120 * Unit))
      s0 == [dimensions |-> spec.dimensionsMm, adjustments |-> <<>>]
      s1 == setIfAdjusted(s0, "thickness",
                          MathMax(Num(Dec(12, 10)), OBJECT_THICKNESS_FLOOR_MM(spec.objectClass)),
                          "Raised to a print-safe thickness for PLA reliability.")
      s2 == setIfAdjusted(s1, "emboss_depth", Num(Dec(6, 10)),
                          "Raised embossed depth to maintain visible detail after slicing.")
      s3 == setIfAdjusted(s2, "deboss_depth", Num(Dec(6, 10)),
                          "Raised debossed depth to maintain visible detail after slicing.")
      s4 == setIfAdjusted(s3, "hole_diameter", Num(Dec(16, 10)),
                          "Raised hole diameter to reduce failed bridges and brittle edges.")
      s5 == setIfAdjusted(s4, "band_width", Num(Dec(12, 10)),
                          "Raised band width to avoid weak ring walls.")
      s6 == capDimension(s5, "width", maxDimensionsMm)
      s7 == capDimension(s6, "height", maxDimensionsMm)
      s8 == capDimension(s7, "outer_diameter", maxDimensionsMm)
  IN [spec |-> [spec EXCEPT !.dimensionsMm = s8.dimensions],
      adjustments |-> s8.adjustments]

DimensionFields ==
  {"width", "height", "thickness", "hole_diameter", "outer_diameter", "band_width",
   "emboss_depth", "deboss_depth"}
NoDimensions == [f \in DimensionFields |-> Undefined]
NoSpec == [objectClass |-> "none", shape |-> "none", dimensionsMm |-> NoDimensions]

\* The spec passed to applyPrintabilityConstraints as it is after the call,
\* were dimensions the object spec.dimensionsMm itself.
specAfterConstraintsShared(spec, options) ==
  [spec EXCEPT !.dimensionsMm = applyPrintabilityConstraints(spec, options).spec.dimensionsMm]

\* The spec passed to applyPrintabilityConstraints as it is after the call:
\* setIfAdjusted and the loop write to dimensions, the copy
\* { ...spec.dimensionsMm }, and the result is a new object.
specAfterConstraints(spec, options) == spec

(***************************************************************************)
(* The generate route: app/api/v1/generate/route.ts                        *)
(***************************************************************************)
\* JSON values: strings and objects beside the numbers and undefined above.
Str(s) == [k |-> "string", s |-> s]
Object(fields) == [k |-> "object", fields |-> fields]

typeof(value) ==
  IF value.k \in {"string", "object", "undefined"} THEN value.k
  ELSE IF value.k = "null" THEN "object"
  ELSE "number"

Truthy(value) ==
  CASE value.k \in {"undefined", "null", "NaN"} -> FALSE
    [] value.k = "string" -> value.s # ""
    [] value.k = "number" -> value.v # 0 \/ value.f # 0
    [] OTHER -> TRUE

PROFILES == {"A1_PLA_0.4", "P1_PLA_0.4", "X1_PLA_0.4"}

isPrinterProfile(value) == value.k = "string" /\ value.s \in PROFILES

\* isModelSpec accepting every candidate.
isModelSpecAlways(candidate) == TRUE

isModelSpec(candidate) ==
  IF ~Truthy(candidate) \/ typeof(candidate) # "object" THEN FALSE
  ELSE LET spec == candidate.fields
       IN /\ typeof(spec.objectClass) = "string"
          /\ typeof(spec.shape) = "string"
          /\ Truthy(spec.dimensionsMm)
          /\ typeof(spec.dimensionsMm) = "object"
          /\ Truthy(spec.featureFlags)
          /\ typeof(spec.featureFlags) = "object"
          /\ typeof(spec.printerProfile) = "string"

badRequest(message) == [status |-> 400, body |-> Str(message)]

\* buildSlicingGuide: the profile and the machine note chosen by it.
buildSlicingGuide(profile) ==
  [profile |-> profile,
   machineNote |->
     CASE profile = "A1_PLA_0.4" -> "Good default profile for lightweight jewellery and tokens."
       [] profile = "P1_PLA_0.4" -> "Stable choice for slightly faster infill and thicker parts."
       [] profile = "X1_PLA_0.4" -> "High consistency profile for detail-focused prints."]

\* Buffer.from(text, "utf-8").toString("base64"), kept as the text it encodes.
Base64(text) == [encoding |-> "base64", of |-> text]

\* NextResponse.json({stlFileName, stlBase64, slicingGuide})
jsonResponse(generated, profile) ==
  [status |-> 200,
   body |-> Object([stlFileName |-> generated.fileName,
                    stlBase64 |-> Base64(generated.stlAscii),
                    slicingGuide |-> buildSlicingGuide(profile)])]

\* The catch clause of POST.
errorResponse(error) ==
  [status |-> 500,
   body |-> Str(IF error.k = "Error" THEN error.message ELSE "Unable to generate STL.")]

\* {...payload.modelSpec, printerProfile: payload.printerProfile}
routeSpec(payload) ==
  [objectClass |-> payload.fields.modelSpec.fields.objectClass.s,
   shape |-> payload.fields.modelSpec.fields.shape.s,
   dimensionsMm |-> payload.fields.modelSpec.fields.dimensionsMm.fields,
   printerProfile |-> payload.fields.printerProfile.s]

NoRequest == [k |-> "none"]
NoResponse == [status |-> 0]

VARIABLES
  pc,         \* "idle", "earcut" (extrudePolygon is inside earcut), "done"
  op,         \* the function called: "none", "extrudePolygon", ...
  outerRaw,   \* extrudePolygon's arguments
  holesRaw,
  thickness,
  indices,    \* what earcut returned
  triangles,  \* extrudePolygon's result
  facet,      \* triangleNormal's argument
  normal,     \* triangleNormal's result
  spec,       \* generateStl's argument
  width,      \* buildFlatShapeTriangles' resolved outline dimensions
  height,
  fileName,   \* generateStl's result
  stlAscii,   \* writeAsciiStl's result
  solidName,  \* writeAsciiStl's argument
  stemInput,  \* sanitiseFileStem's argument
  stemOutput, \* sanitiseFileStem's result
  earcutMemo, \* earcut as a function: the result it gave for each input so far
  calls,      \* the number of calls of generateStl that have returned
  returned,   \* what they returned: records of spec, fileName and stlAscii
  inputSpec,  \* applyPrintabilityConstraints' arguments
  options,
  constrained, \* applyPrintabilityConstraints' result: spec and adjustments
  request,    \* the body of the POST /api/v1/generate request
  response,   \* the route's answer
  passedOuter,     \* the arguments as they were when they were passed:
  passedHoles,     \* extrudePolygon's loops,
  passedSpec,      \* generateStl's spec,
  passedInputSpec, \* applyPrintabilityConstraints' spec
  interpretInput,  \* orchestrateInterpretation's input and what the agents returned
  interpretation,  \* orchestrateInterpretation's response
  step,            \* HomePage's state: the wizard step,
  promptBlank,     \* whether prompt.trim() is empty,
  interpreted,     \* the last interpret response, or null,
  generated,       \* the generate response, or null,
  selectedProfile, \* the printerProfile state,
  isWorking,
  error,           \* null or the message
  awaiting,        \* the handler that awaits its request: "none", "handleCreate", ...
  outcome,         \* how the last awaited request ended: "none", "ok", "failed"
  orientPoints,    \* enforceOrientation's arguments,
  orientClockwise,
  oriented,        \* its result,
  reoriented       \* and its result when it is called on that result

callVars == <<pc, op>>
extrudeVars == <<outerRaw, holesRaw, thickness, indices, triangles, earcutMemo>>
normalVars == <<facet, normal>>
genVars == <<spec, width, height>>
outVars == <<fileName, stlAscii, solidName>>
stemVars == <<stemInput, stemOutput>>
historyVars == <<calls, returned>>
constrainVars == <<inputSpec, options, constrained>>
routeVars == <<request, response>>
passedVars == <<passedOuter, passedHoles, passedSpec, passedInputSpec>>
interpretVars == <<interpretInput, interpretation>>
orientVars == <<orientPoints, orientClockwise, oriented, reoriented>>
wizardVars == <<step, promptBlank, interpreted, generated, selectedProfile, isWorking, error, awaiting, outcome>>
otherVars == <<stemVars, historyVars, constrainVars, routeVars, interpretVars, wizardVars, orientVars>>
restVars == <<otherVars, passedVars>>
vars == <<callVars, extrudeVars, normalVars, genVars, outVars, restVars>>

Init ==
  /\ pc = "idle"
  /\ op = "none"
  /\ outerRaw = <<>>
  /\ holesRaw = <<>>
  /\ thickness = 0
  /\ indices = <<>>
  /\ triangles = <<>>
  /\ facet = <<>>
  /\ normal = Vec3(0, 0, 0)
  /\ spec = NoSpec
  /\ width = 0
  /\ height = 0
  /\ fileName = <<>>
  /\ stlAscii = <<>>
  /\ solidName = <<>>
  /\ stemInput = <<>>
  /\ stemOutput = <<>>
  /\ earcutMemo = <<>>
  /\ calls = 0
  /\ returned = {}
  /\ inputSpec = NoSpec
  /\ options = [maxDimensionsMm |-> Undefined]
  /\ constrained = [spec |-> NoSpec, adjustments |-> <<>>]
  /\ request = NoRequest
  /\ response = NoResponse
  /\ passedOuter = <<>>
  /\ passedHoles = <<>>
  /\ passedSpec = NoSpec
  /\ passedInputSpec = NoSpec
  /\ interpretInput = <<>>
  /\ interpretation = [questions |-> <<>>, modelSpec |-> NoSpec, adjustments |-> <<>>]
  /\ step = "create"
  /\ promptBlank = FALSE
  /\ interpreted = Null
  /\ generated = Null
  /\ selectedProfile = "A1_PLA_0.4"
  /\ isWorking = FALSE
  /\ error = Null
  /\ awaiting = "none"
  /\ outcome = "none"
  /\ orientPoints = <<>>
  /\ orientClockwise = FALSE
  /\ oriented = <<>>
  /\ reoriented = <<>>

(***************************************************************************)
(* extrudePolygon called on small loops with integer coordinates.          *)
(***************************************************************************)
GridStep == 3
ExtrudeThicknesses == {0, 2}

Loop(coords) == [i \in 1..Len(coords) |-> Vec2(coords[i][1], coords[i][2])]

\* Loops of 3 or 4 distinct corners of a square, starting at the origin.
GridLoops ==
  LET C == {<<0, 0>>, <<GridStep, 0>>, <<GridStep, GridStep>>, <<0, GridStep>>}
      seqs == {q \in SeqsUpTo(C, 4) :
                 /\ Len(q) >= 3
                 /\ q[1] = <<0, 0>>
                 /\ \A i \in 1..Len(q) : \A j \in 1..Len(q) : i # j => q[i] # q[j]}
  IN {Loop(q) : q \in seqs}

BigTriangle == Loop(<<<<0, 0>>, <<12, 0>>, <<0, 12>>>>)
SmallTriangle == Loop(<<<<2, 2>>, <<5, 2>>, <<2, 5>>>>)
OtherTriangle == Loop(<<<<1, 7>>, <<3, 7>>, <<1, 9>>>>)

ExtrudeCases ==
  {[outer |-> o, holes |-> <<>>] : o \in GridLoops}
    \cup
  {[outer |-> Loop(<<<<0, 0>>, <<2, 0>>, <<4, 0>>, <<0, 4>>>>), holes |-> <<>>],
   [outer |-> Loop(<<<<0, 0>>, <<4, 0>>, <<1, 1>>, <<0, 4>>>>), holes |-> <<>>],
   [outer |-> Loop(<<<<0, 0>>, <<4, 0>>, <<4, 0>>, <<0, 4>>>>), holes |-> <<>>],
   [outer |-> Loop(<<<<0, 0>>, <<4, 0>>>>), holes |-> <<>>],
   [outer |-> BigTriangle, holes |-> <<SmallTriangle>>],
   [outer |-> Reverse(BigTriangle), holes |-> <<Reverse(SmallTriangle)>>],
   [outer |-> BigTriangle, holes |-> <<SmallTriangle, Reverse(OtherTriangle)>>]}

\* extrudePolygon up to its call of earcut.
\* extrudePolygon(outer, holes, ...) from its entry to the call of earcut: the
\* loops as they were passed, and as the calls of enforceOrientation leave them.
extrudePolygonEntry(outer, holes) ==
  /\ passedOuter' = outer
  /\ passedHoles' = holes
  /\ outerRaw' = pointsAfterEnforceOrientation(outer, FALSE)
  /\ holesRaw' = [h \in DOMAIN holes |-> pointsAfterEnforceOrientation(holes[h], TRUE)]

ExtrudePolygonCall ==
  /\ pc = "idle"
  /\ \E c \in ExtrudeCases : \E t \in ExtrudeThicknesses :
       /\ extrudePolygonEntry(c.outer, c.holes)
       /\ thickness' = t
  /\ op' = "extrudePolygon"
  /\ pc' = "earcut"
  /\ UNCHANGED <<indices, triangles, earcutMemo, normalVars, genVars, outVars, otherVars,
                 passedSpec, passedInputSpec>>

\* earcut is a function of its arguments: an input it has seen gets the result
\* it got before, a new input any of the results above.
EarcutResults(input, outer, holes) ==
  IF \E m \in 1..Len(earcutMemo) : earcutMemo[m].input = input
  THEN {earcutMemo[m].output : m \in {k \in 1..Len(earcutMemo) : earcutMemo[k].input = input}}
  ELSE EarcutOutputs(outer, holes)

\* What earcut may throw: an Error, or a value that is no Error.
EarcutErrors == {[k |-> "Error", message |-> "earcut failed"], [k |-> "other"]}

\* earcut throws and the mesh built from an empty index list is returned.
EarcutThrowsSwallowed ==
  /\ pc = "earcut"
  /\ \E built \in {extrudePolygon(outerRaw, holesRaw, thickness, <<>>)} :
       /\ triangles' = built
       /\ IF op = "generateStl"
          THEN \E name \in {stlFileName(spec)} :
                 /\ fileName' = name
                 /\ solidName' = removeStlSuffix(name)
                 /\ stlAscii' = writeAsciiStl(removeStlSuffix(name), built)
                 /\ response' = IF request = NoRequest THEN response
                                ELSE jsonResponse([fileName |-> name,
                                                   stlAscii |-> stlAscii'],
                                                  request.fields.printerProfile.s)
          ELSE UNCHANGED <<outVars, response>>
  /\ pc' = "threw"
  /\ UNCHANGED <<op, outerRaw, holesRaw, thickness, indices, earcutMemo, normalVars, genVars,
                 stemVars, historyVars, constrainVars, request, passedVars, interpretVars, wizardVars, orientVars>>

\* earcut throws: extrudePolygon and generateStl have no handler and return
\* nothing; the route's catch clause answers.
EarcutThrows ==
  /\ pc = "earcut"
  /\ \E thrown \in EarcutErrors :
       response' = IF request = NoRequest THEN response ELSE errorResponse(thrown)
  /\ pc' = "threw"
  /\ UNCHANGED <<op, extrudeVars, normalVars, genVars, outVars,
                 stemVars, historyVars, constrainVars, request, passedVars, interpretVars, wizardVars, orientVars>>

\* earcut returns and extrudePolygon builds the caps and the walls; when the
\* caller is generateStl, it names the file and writes the text, and when
\* generateStl was called by the route, the route answers.
EarcutReturn ==
  /\ pc = "earcut"
  /\ \E outer \in {NormalisedOuter(outerRaw)} :
     \E holes \in {NormalisedHoles(holesRaw)} :
     \E input \in {<<Flattened(outer, holes), HoleIndices(outer, holes)>>} :
     \E ix \in EarcutResults(input, outer, holes) :
     \E built \in {extrudePolygon(outerRaw, holesRaw, thickness, ix)} :
       /\ earcutMemo' = IF \E m \in 1..Len(earcutMemo) : earcutMemo[m].input = input
                        THEN earcutMemo
                        ELSE Append(earcutMemo, [input |-> input, output |-> ix])
       /\ indices' = ix
       /\ triangles' = built
       /\ IF op = "generateStl"
          THEN \E name \in {stlFileName(spec)} :
                 /\ fileName' = name
                 /\ solidName' = removeStlSuffix(name)
                 /\ stlAscii' = writeAsciiStl(removeStlSuffix(name), built)
                 /\ response' = IF request = NoRequest THEN response
                                ELSE jsonResponse([fileName |-> name,
                                                   stlAscii |-> stlAscii'],
                                                  request.fields.printerProfile.s)
          ELSE UNCHANGED <<outVars, response>>
  /\ pc' = "done"
  /\ UNCHANGED <<op, outerRaw, holesRaw, thickness, normalVars, genVars,
                 stemVars, historyVars, constrainVars, request, passedVars, interpretVars, wizardVars, orientVars>>

NextExtrude == ExtrudePolygonCall \/ EarcutReturn

SpecExtrude == Init /\ [][NextExtrude]_vars

(***************************************************************************)
(* Properties of extrudePolygon.                                           *)
(***************************************************************************)
ExtrudeDone == pc = "done" /\ op = "extrudePolygon"

\* r lies on the closed segment p q.
OnSegment(p, q, r) ==
  /\ Orient(p, q, r) = 0
  /\ Min(p.x, q.x) <= r.x /\ r.x <= Max(p.x, q.x)
  /\ Min(p.y, q.y) <= r.y /\ r.y <= Max(p.y, q.y)

\* The closed segments p q and r s share a point.
SegmentsMeet(p, q, r, s) ==
  \/ /\ Orient(p, q, r) * Orient(p, q, s) < 0
     /\ Orient(r, s, p) * Orient(r, s, q) < 0
  \/ OnSegment(p, q, r) \/ OnSegment(p, q, s)
  \/ OnSegment(r, s, p) \/ OnSegment(r, s, q)

\* A simple loop: at least 3 distinct vertices, non-zero area, and edges that
\* meet only at the vertex two consecutive edges share.
SimpleLoop(loop) ==
  LET n == Len(loop)
      A(i) == loop[i]
      B(i) == loop[(i % n) + 1]
  IN /\ n >= 3
     /\ signedAreaTwice(loop) # 0
     /\ \A i \in 1..n : \A j \in 1..n : i < j => loop[i] # loop[j]
     /\ \A i \in 1..n : \A j \in 1..n :
          i < j =>
            IF j = i + 1 THEN ~OnSegment(A(i), B(i), B(j)) /\ ~OnSegment(A(j), B(j), A(i))
            ELSE IF i = 1 /\ j = n
                 THEN ~OnSegment(A(j), B(j), B(i)) /\ ~OnSegment(A(i), B(i), A(j))
                 ELSE ~SegmentsMeet(A(i), B(i), A(j), B(j))

\* No edge of loop s meets an edge of loop t.
LoopsApart(s, t) ==
  \A i \in 1..Len(s) : \A j \in 1..Len(t) :
    ~SegmentsMeet(s[i], s[(i % Len(s)) + 1], t[j], t[(j % Len(t)) + 1])

Times3(p) == [x |-> 3 * p.x, y |-> 3 * p.y]

\* A polygon-with-holes: simple loops, each hole inside the outer loop, the
\* holes outside one another.
IsPolygonWithHoles(outer, holes) ==
  /\ SimpleLoop(outer)
  /\ \A h \in 1..Len(holes) :
       /\ SimpleLoop(holes[h])
       /\ LoopsApart(holes[h], outer)
       /\ PointInLoop(Times3(holes[h][1]), outer)
       /\ \A g \in 1..Len(holes) :
            g # h => /\ LoopsApart(holes[h], holes[g])
                     /\ ~PointInLoop(Times3(holes[h][1]), holes[g])

\* The vertices of all loops are pairwise distinct.
DistinctVertices(outer, holes) ==
  LET pts == AllPoints(outer, holes)
  IN \A i \in 1..Len(pts) : \A j \in 1..Len(pts) : i # j => pts[i] # pts[j]

\* No point of the buffer lies inside an edge of a returned triangle.
NoTJunction(outer, holes, ix) ==
  LET pts == AllPoints(outer, holes)
  IN \A k \in 1..(Len(ix) \div 3) : \A e \in 1..3 : \A i \in 1..Len(pts) :
       LET t == TriplePoints(pts, TripleAt(ix, k))
           a == t[e]
           b == t[(e % 3) + 1]
       IN pts[i] # a /\ pts[i] # b => ~OnSegment(a, b, pts[i])

\* The directed edges of a mesh, one entry per use.
MeshEdges(mesh) ==
  [k \in 1..(3 * Len(mesh)) |->
     LET t == mesh[(k + 2) \div 3]
         e == ((k - 1) % 3) + 1
     IN <<t[e], t[(e % 3) + 1]>>]

\* Closed and consistently oriented: each directed edge in use is used once,
\* and so is its reverse.
Watertight(mesh) ==
  LET edges == MeshEdges(mesh)
      Uses(u, v) == Cardinality({k \in 1..Len(edges) : edges[k] = <<u, v>>})
  IN \A k \in 1..Len(edges) :
       /\ Uses(edges[k][1], edges[k][2]) = 1
       /\ Uses(edges[k][2], edges[k][1]) = 1

\* C1: extrudePolygon returns 2T + 2(N + h1 + ... + hk) triangles, T being
\* the number of index triples earcut returned, N the outer loop's size and
\* h1..hk the holes' sizes.
C1_TriangleCount ==
  ExtrudeDone =>
    Len(triangles) =
      2 * (Len(indices) \div 3)
        + 2 * (Len(outerRaw)
                 + SumTo([h \in 1..Len(holesRaw) |-> Len(holesRaw[h])], Len(holesRaw)))

C1_Witness ==
  /\ ExtrudeDone
  /\ Len(holesRaw) = 2
  /\ Len(indices) = 3
  /\ Len(triangles) = 2 + 2 * (3 + 3 + 3)

\* The antecedent of C2 as the claim words it.
C2_Claimed ==
  LET outer == NormalisedOuter(outerRaw)
      holes == NormalisedHoles(holesRaw)
  IN /\ ExtrudeDone
     /\ thickness > 0
     /\ DistinctVertices(outer, holes)
     /\ IsPolygonWithHoles(outer, holes)
     /\ IsCover(outer, holes, indices)

\* C2 as claimed: whenever the loops' vertices are pairwise distinct, the
\* thickness is positive and earcut's triples are counter-clockwise and cover
\* the polygon-with-holes without overlap, the mesh is watertight.
C2_WatertightAsClaimed == C2_Claimed => Watertight(triangles)

\* C2 amended: the same, for covers in which no loop vertex lies inside an
\* edge of a returned triangle.
C2_Watertight ==
  (C2_Claimed /\ NoTJunction(NormalisedOuter(outerRaw), NormalisedHoles(holesRaw), indices))
    => Watertight(triangles)

C2_Witness ==
  /\ C2_Claimed
  /\ NoTJunction(NormalisedOuter(outerRaw), NormalisedHoles(holesRaw), indices)
  /\ Len(holesRaw) = 1
  /\ Len(indices) = 18
  /\ Watertight(triangles)

\* A convex loop: simple, and turning one way at every vertex.
ConvexLoop(loop) ==
  LET n == Len(loop)
      Turn3(i) == Orient(loop[i], loop[(i % n) + 1], loop[((i + 1) % n) + 1])
  IN /\ SimpleLoop(loop)
     /\ \/ \A i \in 1..n : Turn3(i) >= 0
        \/ \A i \in 1..n : Turn3(i) <= 0

\* 6 * Len(loop) times the dot product of a triangle's computed normal with
\* the vector from the loop's centroid (the mean of its vertices, at half the
\* thickness) to the triangle's midpoint.
OutwardDot(triangle, loop, thick) ==
  LET n == triangleNormal(triangle)
      count == Len(loop)
      sx == SumTo([i \in 1..count |-> loop[i].x], count)
      sy == SumTo([i \in 1..count |-> loop[i].y], count)
      a == triangle[1]
      b == triangle[2]
      c == triangle[3]
  IN n.x * (2 * count * (a.x + b.x + c.x) - 6 * sx)
       + n.y * (2 * count * (a.y + b.y + c.y) - 6 * sy)
       + n.z * (2 * count * (a.z + b.z + c.z) - 3 * count * thick)

\* Where the walls of the outer loop and of hole h lie in the mesh.
CapCount == 2 * (Len(indices) \div 3)
OuterWallPositions == (CapCount + 1)..(CapCount + 2 * Len(outerRaw))
HoleWallPositions(h) ==
  LET before == Len(outerRaw) + SumTo([g \in 1..Len(holesRaw) |-> Len(holesRaw[g])], h - 1)
  IN (CapCount + 2 * before + 1)..(CapCount + 2 * before + 2 * Len(holesRaw[h]))

\* The antecedent of C3: a mesh of a polygon-with-holes, positive thickness.
C3_Claimed ==
  /\ ExtrudeDone
  /\ thickness > 0
  /\ IsPolygonWithHoles(NormalisedOuter(outerRaw), NormalisedHoles(holesRaw))

\* C3 as claimed: every wall triangle, those of the holes included, has a
\* normal whose dot product with the vector from the polygon's centroid to
\* the triangle's midpoint is positive.
C3_OutwardAsClaimed ==
  C3_Claimed =>
    /\ \A k \in OuterWallPositions : OutwardDot(triangles[k], outerRaw, thickness) > 0
    /\ \A h \in 1..Len(holesRaw) : \A k \in HoleWallPositions(h) :
         OutwardDot(triangles[k], outerRaw, thickness) > 0

\* C3 amended: the walls of a convex outer loop face away from the outer
\* loop's centroid (positive dot product), and the walls of a convex hole face
\* into the hole, towards the hole's own centroid (negative dot product).
C3_Outward ==
  C3_Claimed =>
    /\ ConvexLoop(outerRaw) =>
         \A k \in OuterWallPositions : OutwardDot(triangles[k], outerRaw, thickness) > 0
    /\ \A h \in 1..Len(holesRaw) :
         ConvexLoop(holesRaw[h]) =>
           \A k \in HoleWallPositions(h) :
             OutwardDot(triangles[k], holesRaw[h], thickness) < 0

C3_Witness ==
  /\ C3_Claimed
  /\ Len(holesRaw) = 1
  /\ ConvexLoop(outerRaw) /\ ConvexLoop(holesRaw[1])
  /\ signedAreaTwice(outerRaw) < 0
  /\ \A k \in OuterWallPositions : OutwardDot(triangles[k], outerRaw, thickness) > 0
  /\ \A k \in HoleWallPositions(1) : OutwardDot(triangles[k], holesRaw[1], thickness) < 0

(***************************************************************************)
(* triangleNormal called on triangles with small integer coordinates.      *)
(***************************************************************************)
NormalCoords == {-1, 0, 2}
NormalPoints == {Vec3(x, y, z) : x \in NormalCoords, y \in NormalCoords, z \in NormalCoords}

TriangleNormalCall ==
  /\ pc = "idle"
  /\ \E a \in NormalPoints : \E b \in NormalPoints : \E c \in NormalPoints :
       /\ facet' = <<a, b, c>>
       /\ normal' = triangleNormal(<<a, b, c>>)
  /\ op' = "triangleNormal"
  /\ pc' = "done"
  /\ UNCHANGED <<extrudeVars, genVars, outVars, restVars>>

NextNormal == TriangleNormalCall

SpecNormal == Init /\ [][NextNormal]_vars

NormalDone == pc = "done" /\ op = "triangleNormal"

\* The cross product (B - A) x (C - A) of the facet is the zero vector.
ZeroCross ==
  cross(subtract(facet[2], facet[1]), subtract(facet[3], facet[1])) = Vec3(0, 0, 0)

\* The squared length of a TrigScale-scaled vector is 1 within rounding.
UnitLength(n) ==
  Abs(n.x * n.x + n.y * n.y + n.z * n.z - TrigScale * TrigScale) <= 4 * TrigScale

ObjectClasses == {"earring", "pendant", "ring", "fidget_token", "fidget_spinner"}
Shapes == {"circle", "heart", "star", "rounded_square", "custom_outline"}

Dims(w, h, t, hd, od, bw) ==
  [f \in DimensionFields |->
     CASE f = "width" -> w
       [] f = "height" -> h
       [] f = "thickness" -> t
       [] f = "hole_diameter" -> hd
       [] f = "outer_diameter" -> od
       [] f = "band_width" -> bw
       [] OTHER -> Undefined]

NonFinite == {Undefined, NaN, PosInfinity, NegInfinity}

\* Every class, with thicknesses absent, non-finite, zero, negative, below,
\* at and above 0.8 mm.
ThicknessSpecs ==
  {[objectClass |-> c, shape |-> "circle",
    dimensionsMm |-> Dims(Undefined, Undefined, t, Undefined, Undefined, Undefined)] :
     c \in ObjectClasses,
     t \in NonFinite \cup {Num(0), Num(0 - Unit), Num(Unit \div 2), Num(Dec(8, 10)),
                           Num(3 * Unit)}}

\* Widths, heights and outer diameters absent, non-finite, zero and set.
SizeSpecs ==
  {[objectClass |-> "pendant", shape |-> "circle",
    dimensionsMm |-> Dims(w, h, Undefined, Undefined, od, Undefined)] :
     w \in {Undefined, NaN, PosInfinity, Num(0), Num(Unit), Num(20 * Unit)},
     h \in {Undefined, NaN, NegInfinity, Num(0), Num(12 * Unit)},
     od \in {Undefined, NaN, Num(30 * Unit)}}
    \cup
  {[objectClass |-> "fidget_token", shape |-> "star",
    dimensionsMm |-> Dims(w, h, Undefined, Undefined, Undefined, Undefined)] :
     w \in {Num(0), Num(Unit), Num(20 * Unit)},
     h \in {Num(0), Num(12 * Unit)}}

\* Every class with every shape.
ShapeSpecs ==
  {[objectClass |-> c, shape |-> sh,
    dimensionsMm |-> Dims(w, h, Undefined, Undefined, Undefined, Undefined)] :
     c \in ObjectClasses,
     sh \in Shapes,
     w \in {Undefined, Num(20 * Unit)},
     h \in {Undefined, Num(16 * Unit)}}

\* Rings.
RingSpecs ==
  {[objectClass |-> "ring", shape |-> "circle",
    dimensionsMm |-> Dims(Undefined, Undefined, Undefined, Undefined, od, bw)] :
     od \in {Undefined, NaN, Num(22 * Unit), Num(30 * Unit), Num(6 * Unit)},
     bw \in {Undefined, PosInfinity, Num(4 * Unit), Num(Dec(12, 10)), Num(12 * Unit)}}

\* Hole diameters.
HoleSpecs ==
  {[objectClass |-> c, shape |-> "circle",
    dimensionsMm |-> Dims(Undefined, h, Undefined, hd, Undefined, Undefined)] :
     c \in ObjectClasses \ {"ring"},
     h \in {Undefined, Num(30 * Unit)},
     hd \in {Undefined, NaN, Num(Unit), Num(2 * Unit), Num(8 * Unit)}}

GenSpecs == ThicknessSpecs \cup SizeSpecs \cup ShapeSpecs \cup RingSpecs \cup HoleSpecs

\* generateStl with the thickness kept in a variable that outlives the call and
\* is only ever raised.
GenerateStlStale(specs) ==
  /\ pc = "idle"
  /\ \E s \in specs :
       /\ spec' = s
       /\ passedSpec' = s
       /\ thickness' = Max(thickness, effectiveThickness(s))
       /\ IF s.objectClass = "ring"
          THEN \E ring \in {buildRingTriangles(s.dimensionsMm)} :
                 /\ extrudePolygonEntry(ring.outer, ring.holes)
                 /\ UNCHANGED <<width, height>>
          ELSE \E flat \in {buildFlatShapeTriangles(s)} :
                 /\ extrudePolygonEntry(flat.outer, flat.holes)
                 /\ width' = flat.width
                 /\ height' = flat.height
  /\ op' = "generateStl"
  /\ pc' = "earcut"
  /\ UNCHANGED <<indices, triangles, earcutMemo, normalVars, outVars, otherVars,
                 passedInputSpec>>

\* generateStl(s) from its entry to the call of earcut inside extrudePolygon.
generateStlEntry(s) ==
  /\ spec' = s
  /\ passedSpec' = s
  /\ thickness' = effectiveThickness(s)
  /\ IF s.objectClass = "ring"
     THEN \E ring \in {buildRingTriangles(s.dimensionsMm)} :
            /\ extrudePolygonEntry(ring.outer, ring.holes)
            /\ UNCHANGED <<width, height>>
     ELSE \E flat \in {buildFlatShapeTriangles(s)} :
            /\ extrudePolygonEntry(flat.outer, flat.holes)
            /\ width' = flat.width
            /\ height' = flat.height
  /\ op' = "generateStl"
  /\ pc' = "earcut"

\* generateStl called on one of the specs.
GenerateStl(specs) ==
  /\ pc = "idle"
  /\ \E s \in specs : generateStlEntry(s)
  /\ UNCHANGED <<indices, triangles, earcutMemo, normalVars, outVars, otherVars,
                 passedInputSpec>>

GenerateStlCall == GenerateStl(GenSpecs)

NextGenerate == GenerateStlCall \/ EarcutReturn

SpecGenerate == Init /\ [][NextGenerate]_vars

(***************************************************************************)
(* Properties of generateStl.                                              *)
(***************************************************************************)
GenCalled == op = "generateStl" /\ pc \in {"earcut", "done"}
GenDone == op = "generateStl" /\ pc = "done"

\* The value when it is a finite number, the default when it is missing or
\* non-finite.
FiniteOr(value, default) == IF value.k = "number" THEN value.v ELSE default

\* p lies on the circle about the centre, to within diameter / 4000 + 2
\* micrometres.
OnCircle(p, centre, diameter) ==
  LET r == Abs(RDiv(diameter, 2))
      slack == (r \div 2000) + 2
      dx == p.x - centre.x
      dy == p.y - centre.y
  IN Abs(dx * dx + dy * dy - r * r) <= 2 * r * slack + slack * slack

\* C5: the thickness generateStl passes to the mesh builders is max(0.8, t),
\* t being dimensionsMm.thickness when finite and 2 otherwise; it is at least
\* 0.8, and every mesh vertex has z = 0 or z = thickness.
C5_Thickness ==
  GenCalled =>
    LET t == FiniteOr(spec.dimensionsMm.thickness, 2 * Unit)
    IN /\ thickness = Max(Dec(8, 10), t)
       /\ thickness >= Dec(8, 10)
       /\ pc = "done" =>
            \A k \in 1..Len(triangles) : \A v \in 1..3 :
              triangles[k][v].z \in {0, thickness}

C5_Witness ==
  /\ GenDone
  /\ spec.dimensionsMm.thickness = Num(0)
  /\ thickness = Dec(8, 10)
  /\ \E k \in 1..Len(triangles) : triangles[k][1].z = thickness

\* The width and height as C6 words them: a missing or non-finite width or
\* height is replaced by outer_diameter when that is finite, by 24 mm otherwise.
C6_FallbackAsClaimed ==
  (GenCalled /\ spec.objectClass # "ring") =>
    LET d == spec.dimensionsMm
        alternate == FiniteOr(d.outer_diameter, 24 * Unit)
    IN /\ width = FiniteOr(d.width, alternate)
       /\ height = FiniteOr(d.height, alternate)

\* C6 (amended): for a non-ring spec, a missing width is replaced by
\* outer_diameter; the width is 24 mm if the result is missing or non-finite;
\* a missing or non-finite height is replaced by the resolved width.
C6_Fallback ==
  (GenCalled /\ spec.objectClass # "ring") =>
    LET d == spec.dimensionsMm
    IN /\ width = IF d.width.k = "undefined"
                  THEN FiniteOr(d.outer_diameter, 24 * Unit)
                  ELSE FiniteOr(d.width, 24 * Unit)
       /\ height = FiniteOr(d.height, width)

C6_Witness ==
  /\ GenCalled
  /\ spec.objectClass = "pendant"
  /\ spec.dimensionsMm.width = NaN
  /\ spec.dimensionsMm.outer_diameter = Num(30 * Unit)
  /\ spec.dimensionsMm.height = Undefined
  /\ width = 24 * Unit
  /\ height = 24 * Unit

\* C7: for a ring spec extrudePolygon receives one outer loop of 128 vertices
\* on the circle of diameter outerDiameter and one hole loop of 96 vertices on
\* the circle of diameter max(outerDiameter - 2 bandWidth, 8), the defaults
\* being 22 and 4; 22 and 4 give the inner diameter 14.
C7_Ring ==
  (GenCalled /\ spec.objectClass = "ring") =>
    LET outerDiameter == FiniteOr(spec.dimensionsMm.outer_diameter, 22 * Unit)
        bandWidth == FiniteOr(spec.dimensionsMm.band_width, 4 * Unit)
        innerDiameter == Max(outerDiameter - 2 * bandWidth, 8 * Unit)
    IN /\ Len(outerRaw) = 128
       /\ \A i \in 1..Len(outerRaw) : OnCircle(outerRaw[i], Origin, outerDiameter)
       /\ Len(holesRaw) = 1
       /\ Len(holesRaw[1]) = 96
       /\ \A i \in 1..Len(holesRaw[1]) : OnCircle(holesRaw[1][i], Origin, innerDiameter)
       /\ (outerDiameter = 22 * Unit /\ bandWidth = 4 * Unit) => innerDiameter = 14 * Unit

C7_Witness ==
  /\ GenCalled
  /\ spec.objectClass = "ring"
  /\ spec.dimensionsMm.outer_diameter = Num(22 * Unit)
  /\ spec.dimensionsMm.band_width = Num(4 * Unit)
  /\ outerRaw[1] = [x |-> 11 * Unit, y |-> 0]
  /\ holesRaw[1][1] = [x |-> 7 * Unit, y |-> 0]

\* Every vertex of the loop is at the distance of its first vertex from the
\* origin, and the first vertex is on the x axis.
CentredAtOrigin(loop) ==
  /\ loop[1].y = 0
  /\ \A i \in 1..Len(loop) : OnCircle(loop[i], Origin, 2 * loop[1].x)

\* C8: for a non-ring spec the hole list has one loop of 48 vertices for an
\* earring or a pendant, one loop of 64 vertices centred at the origin for a
\* fidget_spinner, and is empty for a fidget_token.
C8_Holes ==
  (GenCalled /\ spec.objectClass # "ring") =>
    /\ spec.objectClass \in {"earring", "pendant"} =>
         Len(holesRaw) = 1 /\ Len(holesRaw[1]) = 48
    /\ spec.objectClass = "fidget_spinner" =>
         Len(holesRaw) = 1 /\ Len(holesRaw[1]) = 64 /\ CentredAtOrigin(holesRaw[1])
    /\ spec.objectClass = "fidget_token" => holesRaw = <<>>

C8_Witness ==
  /\ GenCalled
  /\ spec.objectClass = "fidget_spinner"
  /\ spec.dimensionsMm.hole_diameter = Num(8 * Unit)
  /\ Len(holesRaw) = 1
  /\ Len(holesRaw[1]) = 64
  /\ holesRaw[1][1] = [x |-> 4 * Unit, y |-> 0]

\* The vertex counts C9 states.
C9_Counts ==
  /\ spec.objectClass = "fidget_spinner" => Len(outerRaw) = 180
  /\ (spec.objectClass # "fidget_spinner" /\ spec.shape = "circle") => Len(outerRaw) = 96
  /\ (spec.objectClass # "fidget_spinner" /\ spec.shape = "star") => Len(outerRaw) = 10
  /\ (spec.objectClass # "fidget_spinner" /\ spec.shape = "rounded_square") =>
       Len(outerRaw) = 32
  /\ (spec.objectClass # "fidget_spinner" /\ spec.shape = "heart") => Len(outerRaw) = 120

C10_CustomOutlineIsHeart ==
  (GenCalled /\ spec.objectClass \notin {"ring", "fidget_spinner"}
     /\ spec.shape = "custom_outline") =>
    /\ Len(outerRaw) = 120
    /\ outerRaw = shapeOutline("heart", width, height)

\* The extent of the loop along x and along y.
BoundingWidth(loop) ==
  MaxOf({loop[i].x : i \in 1..Len(loop)}) - MinOf({loop[i].x : i \in 1..Len(loop)})
BoundingHeight(loop) ==
  MaxOf({loop[i].y : i \in 1..Len(loop)}) - MinOf({loop[i].y : i \in 1..Len(loop)})

\* C11: for every shape and positive width and height, the bounding box of
\* the outer loop the outline generator returns has the requested width and
\* height within 1e-3 mm.
C11_BoundingBox ==
  (GenCalled /\ spec.objectClass \notin {"ring", "fidget_spinner"}
     /\ width > 0 /\ height > 0) =>
    /\ Abs(BoundingWidth(outerRaw) - width) <= Unit \div 1000
    /\ Abs(BoundingHeight(outerRaw) - height) <= Unit \div 1000

(***************************************************************************)
(* sanitiseFileStem called on short strings over letters, a digit, the     *)
(* underscore, the hyphen, a space and a dot.                              *)
(***************************************************************************)
MaxStemLen == 4
StemAlphabet == {"a", "Z", "7", "_", "-", " ", "."}
StemInputs == SeqsUpTo(StemAlphabet, MaxStemLen)

SanitiseFileStemCall ==
  /\ pc = "idle"
  /\ \E value \in StemInputs :
       /\ stemInput' = value
       /\ stemOutput' = sanitiseFileStem(value)
  /\ op' = "sanitiseFileStem"
  /\ pc' = "done"
  /\ UNCHANGED <<extrudeVars, normalVars, genVars, outVars, historyVars, constrainVars,
                 routeVars, passedVars, interpretVars, wizardVars, orientVars>>

NextSanitise == SanitiseFileStemCall

SpecSanitise == Init /\ [][NextSanitise]_vars

SanitiseDone == pc = "done" /\ op = "sanitiseFileStem"

\* The characters of value that satisfy keep, in order.
Keep(value, class) == SelectSeq(value, LAMBDA c : c \in class)

\* value with each run of hyphens collapsed to one hyphen.
CollapseHyphens(value) ==
  Flatten([i \in 1..Len(value) |->
             IF value[i] = "-" /\ i > 1 /\ value[i - 1] = "-" THEN <<>> ELSE <<value[i]>>])

\* value without its leading and trailing hyphens.
RECURSIVE StripEnds(_)
StripEnds(value) ==
  IF value # <<>> /\ Head(value) = "-" THEN StripEnds(Tail(value))
  ELSE IF value # <<>> /\ value[Len(value)] = "-"
       THEN StripEnds(SubSeq(value, 1, Len(value) - 1))
       ELSE value

\* The shape of the result: only characters of [A-Za-z0-9_-], no two adjacent
\* hyphens, no hyphen at either end.
CleanStem(value) ==
  /\ \A i \in 1..Len(value) : value[i] \in StemChars
  /\ \A i \in 1..(Len(value) - 1) : ~(value[i] = "-" /\ value[i + 1] = "-")
  /\ value # <<>> => (value[1] # "-" /\ value[Len(value)] # "-")

\* C13 as worded: the result is the input with the characters outside
\* [A-Za-z0-9_-] removed, then hyphen runs collapsed, then the ends trimmed.
C13_StrippedAsClaimed ==
  SanitiseDone =>
    /\ stemOutput = StripEnds(CollapseHyphens(Keep(stemInput, StemChars)))
    /\ CleanStem(stemOutput)

\* C13 (amended): the result is the input with every run of characters
\* outside [A-Za-z0-9_-] replaced by one hyphen, then hyphen runs collapsed,
\* then the leading and trailing hyphen trimmed; it has only characters of
\* [A-Za-z0-9_-], no two adjacent hyphens and no hyphen at either end.
C13_Replaced ==
  SanitiseDone =>
    LET hyphenated == [i \in 1..Len(stemInput) |->
                         IF stemInput[i] \in StemChars THEN stemInput[i] ELSE "-"]
    IN /\ stemOutput = StripEnds(CollapseHyphens(hyphenated))
       /\ CleanStem(stemOutput)

C13_Witness ==
  /\ SanitiseDone
  /\ stemInput = <<"a", " ", ".", "Z">>
  /\ stemOutput = <<"a", "-", "Z">>

\* C12: for a spec with a valid objectClass and shape, generateStl returns
\* fileName = '<objectClass>-<shape>.stl', the first line of stlAscii is
\* 'solid <objectClass>-<shape>' and the last is 'endsolid <objectClass>-<shape>'.
C12_Naming ==
  GenDone =>
    LET stem == Chars(spec.objectClass) \o <<"-">> \o Chars(spec.shape)
    IN /\ fileName = stem \o <<".", "s", "t", "l">>
       /\ stlAscii[1] = <<"solid ">> \o stem
       /\ stlAscii[Len(stlAscii)] = <<"endsolid ">> \o stem

C12_Witness ==
  /\ GenDone
  /\ spec.objectClass = "earring"
  /\ spec.shape = "heart"
  /\ fileName = <<"e", "a", "r", "r", "i", "n", "g", "-", "h", "e", "a", "r", "t",
                  ".", "s", "t", "l">>
  /\ stlAscii[1] = <<"solid ", "e", "a", "r", "r", "i", "n", "g", "-",
                     "h", "e", "a", "r", "t">>
  /\ Len(stlAscii) > 2

(***************************************************************************)
(* writeAsciiStl called on short names and meshes of a few triangles.      *)
(***************************************************************************)
MaxMeshTriangles == 2

WriteNames == {<<>>, <<"a">>, <<"r", "i", "n", "g", "-", "s", "t", "a", "r">>, <<"x", " ", "y">>}

WriteTriangles ==
  {<<Vec3(0, 0, 0), Vec3(Unit, 0, 0), Vec3(0, Unit, 0)>>,
   <<Vec3(0, 0, 2 * Unit), Vec3(0, Unit, 2 * Unit), Vec3(Unit, 0, 2 * Unit)>>,
   <<Vec3(0 - 1500, 250, 0), Vec3(1, 0 - 1, Unit), Vec3(12 * Unit, 7, 0 - 3)>>,
   <<Vec3(Unit, Unit, Unit), Vec3(Unit, Unit, Unit), Vec3(Unit, Unit, Unit)>>,
   <<Vec3(0, 0, 0), Vec3(Unit, Unit, 0), Vec3(2 * Unit, 2 * Unit, 0)>>}

WriteMeshes == SeqsUpTo(WriteTriangles, MaxMeshTriangles)

WriteAsciiStlCall ==
  /\ pc = "idle"
  /\ \E name \in WriteNames : \E mesh \in WriteMeshes :
       /\ solidName' = name
       /\ triangles' = mesh
       /\ stlAscii' = writeAsciiStl(name, mesh)
  /\ op' = "writeAsciiStl"
  /\ pc' = "done"
  /\ UNCHANGED <<outerRaw, holesRaw, thickness, indices, earcutMemo, normalVars, genVars, fileName,
                 restVars>>

NextWrite == WriteAsciiStlCall

SpecWrite == Init /\ [][NextWrite]_vars

WriteDone == pc = "done" /\ op = "writeAsciiStl"

\* C14: writeAsciiStl produces 2 + 7n lines: 'solid <name>', per triangle in
\* mesh order 'facet normal', 'outer loop', three 'vertex' lines in the
\* triangle's vertex order, 'endloop', 'endfacet', then 'endsolid <name>'.
C14_Layout ==
  WriteDone =>
    LET n == Len(triangles)
        VertexLine(v) ==
          <<"      vertex ", toFixed6(v.x, Unit), toFixed6(v.y, Unit), toFixed6(v.z, Unit)>>
    IN /\ Len(stlAscii) = 2 + 7 * n
       /\ stlAscii[1] = <<"solid ">> \o solidName
       /\ stlAscii[2 + 7 * n] = <<"endsolid ">> \o solidName
       /\ \A t \in 1..n :
            LET first == 7 * (t - 1) + 2
            IN /\ Len(stlAscii[first]) = 4
               /\ stlAscii[first][1] = "  facet normal "
               /\ stlAscii[first + 1] = <<"    outer loop">>
               /\ stlAscii[first + 2] = VertexLine(triangles[t][1])
               /\ stlAscii[first + 3] = VertexLine(triangles[t][2])
               /\ stlAscii[first + 4] = VertexLine(triangles[t][3])
               /\ stlAscii[first + 5] = <<"    endloop">>
               /\ stlAscii[first + 6] = <<"  endfacet">>

C14_Witness ==
  /\ WriteDone
  /\ Len(triangles) = 2
  /\ triangles[1] # triangles[2]
  /\ Len(stlAscii) = 16
  /\ stlAscii[12] = <<"      vertex ", 1000, 0 - 1000, 1000000>>

(***************************************************************************)
(* generateStl called several times in one run.                            *)
(***************************************************************************)
MaxCalls == 3

StarSpec(w, t) ==
  [objectClass |-> "fidget_token", shape |-> "star",
   dimensionsMm |-> Dims(Num(w), Num(12 * Unit), t, Undefined, Undefined, Undefined)]

\* Two specs that give earcut the same input and one that gives another.
RepeatSpecs ==
  {StarSpec(20 * Unit, Num(2 * Unit)), StarSpec(20 * Unit, Num(3 * Unit)),
   StarSpec(6 * Unit, Undefined)}

RepeatCall == calls < MaxCalls /\ GenerateStl(RepeatSpecs)

\* generateStl returns { fileName, stlAscii } to its caller.
GenerateStlReturn ==
  /\ pc = "done"
  /\ op = "generateStl"
  /\ calls' = calls + 1
  /\ returned' = returned \cup
       {[spec |-> spec, fileName |-> fileName, stlAscii |-> stlAscii]}
  /\ pc' = "idle"
  /\ UNCHANGED <<op, extrudeVars, normalVars, genVars, outVars, stemVars, constrainVars,
                 routeVars, passedVars, interpretVars, wizardVars, orientVars>>

NextRepeat == RepeatCall \/ EarcutReturn \/ GenerateStlReturn

SpecRepeat == Init /\ [][NextRepeat]_vars

ConstrainDims(w, h, t, hd, od, bw, ed, dd) ==
  [f \in DimensionFields |->
     CASE f = "width" -> w
       [] f = "height" -> h
       [] f = "thickness" -> t
       [] f = "hole_diameter" -> hd
       [] f = "outer_diameter" -> od
       [] f = "band_width" -> bw
       [] f = "emboss_depth" -> ed
       [] f = "deboss_depth" -> dd]

\* Thicknesses around the floors of every class, under the default ceiling.
ConstrainThicknessCases ==
  {[spec |-> [objectClass |-> c, shape |-> "circle",
              dimensionsMm |-> ConstrainDims(Undefined, Undefined, t, Undefined, Undefined,
                                             Undefined, Undefined, Undefined)],
    options |-> [maxDimensionsMm |-> Undefined]] :
     c \in ObjectClasses,
     t \in {Undefined, NaN, NegInfinity, Num(0), Fine(1234, 7), Num(Dec(12, 10)),
            Num(Dec(18, 10)), Fine(2 * Unit, 3), Num(3 * Unit), Num(6 * Unit)}}

\* Depths, hole diameters and band widths around their floors.
ConstrainFloorCases ==
  {[spec |-> [objectClass |-> "pendant", shape |-> "heart",
              dimensionsMm |-> ConstrainDims(Undefined, Undefined, Undefined, hd, Undefined,
                                             bw, ed, dd)],
    options |-> [maxDimensionsMm |-> Undefined]] :
     hd \in {Undefined, Num(Unit), Num(Dec(16, 10)), Num(0 - 500)},
     bw \in {Undefined, Fine(500, 3), Num(Dec(12, 10))},
     ed \in {Undefined, Fine(123, 3), Num(Dec(6, 10)), Num(Dec(7, 10))},
     dd \in {Undefined, Num(0), Num(Dec(6, 10))}}

\* Widths, heights and outer diameters around the ceiling.
ConstrainCeilingCases ==
  {[spec |-> [objectClass |-> "ring", shape |-> "circle",
              dimensionsMm |-> ConstrainDims(w, h, Undefined, Undefined, od, Undefined,
                                             Undefined, Undefined)],
    options |-> [maxDimensionsMm |-> m]] :
     w \in {Undefined, PosInfinity, Num(120 * Unit), Fine(120 * Unit, 3), Num(200 * Unit)},
     h \in {Undefined, Num(40 * Unit), Num(130 * Unit)},
     od \in {Undefined, Fine(60 * Unit, 7)},
     m \in {Undefined, Num(50 * Unit), Num(120 * Unit)}}

ConstrainCases == ConstrainThicknessCases \cup ConstrainFloorCases \cup ConstrainCeilingCases

ApplyPrintabilityConstraintsCall ==
  /\ pc = "idle"
  /\ \E c \in ConstrainCases :
       /\ passedInputSpec' = c.spec
       /\ inputSpec' = specAfterConstraints(c.spec, c.options)
       /\ options' = c.options
       /\ constrained' = applyPrintabilityConstraints(c.spec, c.options)
  /\ op' = "applyPrintabilityConstraints"
  /\ pc' = "done"
  /\ UNCHANGED <<extrudeVars, normalVars, genVars, outVars, stemVars, historyVars, routeVars,
                 passedOuter, passedHoles, passedSpec, interpretVars, wizardVars, orientVars>>

NextConstrain == ApplyPrintabilityConstraintsCall

SpecConstrain == Init /\ [][NextConstrain]_vars

ConstrainDone == pc = "done" /\ op = "applyPrintabilityConstraints"

\* The floors and the ceiling as C16 states them.
ClassFloor(objectClass) ==
  CASE objectClass = "earring" -> Dec(18, 10)
    [] objectClass = "pendant" -> 2 * Unit
    [] objectClass = "ring" -> 2 * Unit
    [] objectClass = "fidget_token" -> 3 * Unit
    [] objectClass = "fidget_spinner" -> 5 * Unit

FloorOf(field, objectClass) ==
  CASE field = "thickness" -> Max(Dec(12, 10), ClassFloor(objectClass))
    [] field = "emboss_depth" -> Dec(6, 10)
    [] field = "deboss_depth" -> Dec(6, 10)
    [] field = "hole_diameter" -> Dec(16, 10)
    [] field = "band_width" -> Dec(12, 10)

FloorFields == {"thickness", "emboss_depth", "deboss_depth", "hole_diameter", "band_width"}
CeilingFields == {"width", "height", "outer_diameter"}

Ceiling == IF options.maxDimensionsMm.k = "number" THEN options.maxDimensionsMm.v ELSE 120 * Unit

\* The value is a finite number within the bound of its field.
WithinBound(field, value, objectClass) ==
  /\ value.k = "number"
  /\ field \in FloorFields => value.v >= FloorOf(field, objectClass)
  /\ field \in CeilingFields =>
       (value.v < Ceiling \/ (value.v = Ceiling /\ value.f = 0))

BoundOf(field, objectClass) ==
  IF field \in FloorFields THEN Num(FloorOf(field, objectClass)) ELSE Num(Ceiling)

\* The bounds, the values kept, and one adjustment per changed dimension with
\* to = the bound and from as the operator From gives it.
Clamped(From(_)) ==
  LET before == inputSpec.dimensionsMm
      after == constrained.spec.dimensionsMm
      class == inputSpec.objectClass
      list == constrained.adjustments
      changed == {f \in DimensionFields : after[f] # before[f]}
  IN /\ \A f \in DimensionFields :
          after[f].k = "number" => WithinBound(f, after[f], class)
     /\ \A f \in DimensionFields :
          (before[f].k # "number" \/ WithinBound(f, before[f], class)) => after[f] = before[f]
     /\ Len(list) = Cardinality(changed)
     /\ \A f \in changed :
          \E i \in 1..Len(list) :
            /\ list[i].field = f
            /\ list[i].from = From(before[f])
            /\ list[i].to = BoundOf(f, class)
            /\ list[i].to = after[f]
            /\ \A j \in 1..Len(list) : list[j].field = f => j = i

\* C16 as worded: from = the old value.
C16_ClampedAsClaimed == ConstrainDone => Clamped(LAMBDA old : old)

\* C16 (amended): as C16, with from = the old value rounded to three decimal
\* places.
C16_Clamped ==
  ConstrainDone =>
    Clamped(LAMBDA old : Num(IF old.f >= 5 THEN old.v + 1 ELSE old.v))

C16_Witness ==
  /\ ConstrainDone
  /\ inputSpec.objectClass = "earring"
  /\ inputSpec.dimensionsMm.thickness = Fine(1234, 7)
  /\ constrained.spec.dimensionsMm.thickness = Num(1800)
  /\ Len(constrained.adjustments) = 1
  /\ constrained.adjustments[1].from = Num(1235)

(***************************************************************************)
(* POST /api/v1/generate                                                   *)
(***************************************************************************)
RouteDimensions ==
  Object([f \in DimensionFields |->
            CASE f = "width" -> Num(20 * Unit)
              [] f = "height" -> Num(12 * Unit)
              [] f = "thickness" -> Num(Unit)
              [] OTHER -> Undefined])

ModelSpecBody(objectClass, shape, dimensionsMm, featureFlags, printerProfile) ==
  Object([objectClass |-> objectClass, shape |-> shape, dimensionsMm |-> dimensionsMm,
          featureFlags |-> featureFlags, printerProfile |-> printerProfile])

Payload(modelSpec, printerProfile) ==
  Object([modelSpec |-> modelSpec, printerProfile |-> printerProfile])

NoFlags == Object(<<>>)

\* Bodies with every field of the right type; the words are in and out of
\* the enum sets.
TypedRequests ==
  {Payload(ModelSpecBody(Str(c), Str(s), RouteDimensions, NoFlags, Str("A1_PLA_0.4")), p) :
     c \in {"pendant", "fidget_token", "bracelet"},
     s \in {"star", "rounded_square", "hexagon"},
     p \in {Undefined, Str(""), Str("A1_PLA_0.4"), Str("X1_PLA_0.4"), Str("Ender3")}}

\* Bodies with a field missing or of another type, an unparsable body and null.
UntypedRequests ==
  {[k |-> "invalid"], Null, Payload(Undefined, Str("A1_PLA_0.4"))}
  \cup {Payload(ModelSpecBody(c, Str("star"), RouteDimensions, NoFlags, Str("A1_PLA_0.4")),
                Str("A1_PLA_0.4")) : c \in {Undefined, Num(Unit)}}
  \cup {Payload(ModelSpecBody(Str("pendant"), s, RouteDimensions, NoFlags, Str("A1_PLA_0.4")),
                Str("P1_PLA_0.4")) : s \in {Undefined, Null}}
  \cup {Payload(ModelSpecBody(Str("pendant"), Str("star"), d, f, p), Str("A1_PLA_0.4")) :
          d \in {Undefined, RouteDimensions}, f \in {Null, NoFlags},
          p \in {Undefined, Str("A1_PLA_0.4")}}

RouteRequests == TypedRequests \cup UntypedRequests

\* The route answers 400 before anything is called.
Reject(message) ==
  /\ response' = badRequest(message)
  /\ op' = "POST"
  /\ pc' = "done"
  /\ UNCHANGED <<extrudeVars, normalVars, genVars, outVars, stemVars, historyVars, constrainVars,
                 passedVars, interpretVars, wizardVars, orientVars>>

\* POST up to its answer 400, or up to the call of earcut inside generateStl.
Post(requests) ==
  \E payload \in requests :
       /\ request' = payload
       /\ IF payload.k = "invalid"
          THEN Reject("Invalid JSON body.")
          ELSE IF ~Truthy(payload) \/ ~isModelSpec(payload.fields.modelSpec)
          THEN Reject("Field 'modelSpec' is required.")
          ELSE IF \/ ~Truthy(payload.fields.printerProfile)
                  \/ ~isPrinterProfile(payload.fields.printerProfile)
          THEN Reject("Field 'printerProfile' must be a supported PLA profile.")
          ELSE \E given \in {routeSpec(payload)} :
               \E result \in {applyPrintabilityConstraints(given, [maxDimensionsMm |-> Undefined])} :
                 /\ passedInputSpec' = given
                 /\ inputSpec' = specAfterConstraints(given, [maxDimensionsMm |-> Undefined])
                 /\ options' = [maxDimensionsMm |-> Undefined]
                 /\ constrained' = result
                 /\ generateStlEntry(result.spec)
                 /\ UNCHANGED <<indices, triangles, earcutMemo, normalVars, outVars,
                                stemVars, historyVars, response, interpretVars, wizardVars, orientVars>>

PostCall ==
  /\ pc = "idle"
  /\ Post(RouteRequests)

NextRoute == PostCall \/ EarcutReturn \/ EarcutThrows

SpecRoute == Init /\ [][NextRoute]_vars

\* The request carries a model specification with its fields typed.
TypedRequest == request.k = "object" /\ isModelSpec(request.fields.modelSpec)

\* One of the three enum fields of the request is outside its closed set.
InvalidEnum ==
  /\ TypedRequest
  /\ \/ request.fields.modelSpec.fields.objectClass.s \notin ObjectClasses
     \/ request.fields.modelSpec.fields.shape.s \notin Shapes
     \/ ~isPrinterProfile(request.fields.printerProfile)

\* C17: a request with an objectClass, shape or printerProfile outside its
\* enum set is answered 400 with neither applyPrintabilityConstraints nor
\* generateStl called, and generateStl is only called with valid enum values
\* and the spec applyPrintabilityConstraints returned.
C17_EnumValidation ==
  /\ InvalidEnum => response.status = 400 /\ inputSpec = NoSpec /\ spec = NoSpec
  /\ (request # NoRequest /\ spec # NoSpec) =>
       /\ spec.objectClass \in ObjectClasses
       /\ spec.shape \in Shapes
       /\ spec.printerProfile \in PROFILES
       /\ spec = constrained.spec

RouteThrew == pc = "threw" /\ request # NoRequest

\* Nothing was returned: no mesh, no file name, no text, and the answer is
\* status 500 with a message for its body.
NoResult ==
  /\ triangles = <<>>
  /\ fileName = <<>>
  /\ stlAscii = <<>>
  /\ response.status = 500
  /\ response.body.k = "string"

\* C18: when earcut throws inside extrudePolygon, generateStl returns nothing
\* and the route answers 500 without stlBase64, and no mesh or text is
\* returned after the failure either.
C18_Surfaced ==
  /\ [](RouteThrew => NoResult)
  /\ [][pc = "threw" => pc' = "threw" /\ UNCHANGED <<triangles, outVars, response>>]_vars

C18_Witness ==
  /\ RouteThrew
  /\ spec.objectClass = "pendant"
  /\ response = [status |-> 500, body |-> Str("earcut failed")]

Id(word) == <<word>>

Question(id, label, inputType) == [id |-> id, label |-> label, inputType |-> inputType]

\* value.trim()
RECURSIVE trim(_)
trim(value) ==
  IF value = <<>> THEN value
  ELSE IF Head(value) = " " THEN trim(Tail(value))
  ELSE IF value[Len(value)] = " " THEN trim(SubSeq(value, 1, Len(value) - 1))
  ELSE value

\* items.slice(0, count)
slice(items, count) == SubSeq(items, 1, Min(count, Len(items)))

\* The items the function keeps, in their order.
RECURSIVE Filter(_, _)
Filter(items, keep) ==
  IF items = <<>> THEN <<>>
  ELSE (IF keep[1] THEN <<Head(items)>> ELSE <<>>)
         \o Filter(Tail(items), [i \in 1..(Len(items) - 1) |-> keep[i + 1]])

\* sanitiseQuestion: the question with its id and label trimmed, or null
\* (here the question without an id) when a part is missing.
sanitiseQuestion(item) ==
  LET id == trim(item.id)
      label == item.label
      inputType == IF item.inputType \in {"select", "number", "text"} THEN item.inputType ELSE ""
  IN IF id = <<>> \/ label = "" \/ inputType = "" THEN Question(<<>>, "", "")
     ELSE Question(id, label, inputType)

buildDefaultQuestions(seed) ==
  LET questions ==
        (IF ~seed.objectExplicit
         THEN <<Question(Id("object_class"), "What kind of item are you making?", "select")>>
         ELSE <<>>)
        \o (IF ~seed.shapeExplicit
            THEN <<Question(Id("shape"), "Which shape should we use?", "select")>>
            ELSE <<>>)
        \o (IF "width" \notin seed.dimensionFieldsExplicit
            THEN <<Question(Id("width"), "What width should it be?", "number")>>
            ELSE <<>>)
        \o (IF "height" \notin seed.dimensionFieldsExplicit
            THEN <<Question(Id("height"), "What height should it be?", "number")>>
            ELSE <<>>)
        \o (IF "thickness" \notin seed.dimensionFieldsExplicit
            THEN <<Question(Id("thickness"), "What thickness should it be?", "number")>>
            ELSE <<>>)
        \o (IF /\ seed.objectClass \in {"earring", "pendant", "fidget_spinner"}
               /\ "hole_diameter" \notin seed.dimensionFieldsExplicit
            THEN <<Question(Id("hole_diameter"), "What hole diameter would you like?", "number")>>
            ELSE <<>>)
  IN slice(questions, 4)

\* questionAgent: the default questions, or the first four questions of the
\* language model's list that sanitiseQuestion keeps, when there are any.
questionAgent(seed, llm) ==
  IF llm.k # "object" \/ ~llm.isArray THEN buildDefaultQuestions(seed)
  ELSE LET mapped == [i \in 1..Len(llm.questions) |-> sanitiseQuestion(llm.questions[i])]
           parsed == Filter(mapped, [i \in 1..Len(mapped) |-> mapped[i].id # <<>>])
       IN IF Len(parsed) > 0 THEN slice(parsed, 4) ELSE buildDefaultQuestions(seed)

criticalFields(objectClass) ==
  IF objectClass = "ring" THEN <<"outer_diameter", "band_width", "thickness">>
  ELSE <<"width", "height", "thickness">>
         \o (IF objectClass \in {"earring", "pendant"} THEN <<"hole_diameter">> ELSE <<>>)

\* `Please provide ${field.replaceAll("_", " ")}.`
pendingLabel(field) ==
  CASE field = "outer_diameter" -> "Please provide outer diameter."
    [] field = "band_width" -> "Please provide band width."
    [] field = "hole_diameter" -> "Please provide hole diameter."
    [] field = "width" -> "Please provide width."
    [] field = "height" -> "Please provide height."
    [] field = "thickness" -> "Please provide thickness."

\* buildPendingQuestions; answers is the set of the keys that have a value.
buildPendingQuestions(seed, modelSpec, answers) ==
  LET fields == criticalFields(modelSpec.objectClass)
      asked == Filter(fields,
                      [i \in 1..Len(fields) |->
                         /\ Id(fields[i]) \notin answers
                         /\ modelSpec.dimensionsMm[fields[i]].k # "number"])
      pending ==
        (IF ~seed.objectExplicit /\ Id("object_class") \notin answers
         THEN <<Question(Id("object_class"), "What kind of item are you making?", "select")>>
         ELSE <<>>)
        \o (IF ~seed.shapeExplicit /\ Id("shape") \notin answers
            THEN <<Question(Id("shape"), "Which shape should we use?", "select")>>
            ELSE <<>>)
        \o [i \in 1..Len(asked) |->
              Question(Id(asked[i]), pendingLabel(asked[i]), "number")]
  IN slice(pending, 4)

\* new Map filled from the questions in order: the first question of each id
\* that is not answered.
mergedMap(questions, answered) ==
  Filter(questions,
         [i \in 1..Len(questions) |->
            /\ questions[i].id \notin answered
            /\ \A j \in 1..(i - 1) : questions[j].id # questions[i].id])

\* mergeQuestions without slice(0, 4).
mergeQuestionsUnsliced(questionAgentQuestions, pendingQuestions, answers, safety) ==
  LET primary == IF answers # {} THEN pendingQuestions ELSE questionAgentQuestions
      secondary == IF answers # {} THEN questionAgentQuestions ELSE pendingQuestions
      merged == mergedMap(primary \o secondary, answers)
  IN IF /\ safety.confidence < 60
        /\ Id("thickness") \notin answers
        /\ \A i \in 1..Len(merged) : merged[i].id # Id("thickness")
     THEN <<Question(Id("thickness"),
                     "Please confirm the thickness to avoid fragile prints.", "number")>>
            \o merged
     ELSE merged

\* mergeQuestions; the confidence is in hundredths.
mergeQuestions(questionAgentQuestions, pendingQuestions, answers, safety) ==
  LET primary == IF answers # {} THEN pendingQuestions ELSE questionAgentQuestions
      secondary == IF answers # {} THEN questionAgentQuestions ELSE pendingQuestions
      merged == mergedMap(primary \o secondary, answers)
  IN IF /\ safety.confidence < 60
        /\ Id("thickness") \notin answers
        /\ \A i \in 1..Len(merged) : merged[i].id # Id("thickness")
     THEN slice(<<Question(Id("thickness"),
                           "Please confirm the thickness to avoid fragile prints.", "number")>>
                  \o merged, 4)
     ELSE slice(merged, 4)

\* What parsePrompt may find in the prompt.
Seeds ==
  [objectClass : {"pendant", "ring"},
   objectExplicit : BOOLEAN,
   shapeExplicit : BOOLEAN,
   dimensionFieldsExplicit :
     {{}, {"thickness"}, {"width", "height", "thickness", "hole_diameter"}}]

Item(id, label, inputType) == [id |-> id, label |-> label, inputType |-> inputType]

\* What the language model may answer the question agent: nothing, no list,
\* an empty list, six questions two of which share an id once trimmed, and a
\* list with items sanitiseQuestion drops.
LlmAnswers ==
  {[k |-> "null", isArray |-> FALSE, questions |-> <<>>],
   [k |-> "object", isArray |-> FALSE, questions |-> <<>>],
   [k |-> "object", isArray |-> TRUE, questions |-> <<>>],
   [k |-> "object", isArray |-> TRUE,
    questions |-> <<Item(Id("colour"), "Which colour?", "select"),
                    Item(<<" ", "colour", " ">>, "Which colour would you like?", "text"),
                    Item(Id("finish"), "Which finish?", "select"),
                    Item(Id("material"), "Which material?", "text"),
                    Item(Id("engraving"), "Any engraving?", "text"),
                    Item(Id("size"), "Which size?", "number")>>],
   [k |-> "object", isArray |-> TRUE,
    questions |-> <<Item(<<" ">>, "No id", "text"),
                    Item(Id("thickness"), "", "number"),
                    Item(Id("shape"), "Which shape?", "choice"),
                    Item(<<"thickness", " ">>, "How thick?", "number"),
                    Item(Id("thickness"), "How thick again?", "number")>>]}

AnswerKeys ==
  {{}, {Id("thickness")}, {Id("object_class"), Id("width")}, {Id("colour")}}

\* The safety agent's confidence, in hundredths, on both sides of 0.6.
Confidences == {59, 60}

\* The spec after normaliseSpec and applyAnswers: every dimension finite, or
\* the critical ones infinite or missing.
AnsweredSpecs ==
  {[objectClass |-> c, shape |-> "heart", dimensionsMm |-> d] :
     c \in {"pendant", "ring", "fidget_token"},
     d \in {Dims(Num(30 * Unit), Num(30 * Unit), Num(Dec(24, 10)), Num(Dec(22, 10)),
                 Num(22 * Unit), Num(4 * Unit)),
            Dims(PosInfinity, PosInfinity, PosInfinity, Undefined, PosInfinity, Undefined)}}

\* orchestrateInterpretation, from the results of the agents on: the
\* constraints, the pending questions, the merged questions and the response.
OrchestrateInterpretationCall ==
  /\ pc = "idle"
  /\ \E seed \in Seeds : \E llm \in LlmAnswers : \E answers \in AnswerKeys :
     \E confidence \in Confidences : \E answeredSpec \in AnsweredSpecs :
     \E result \in {applyPrintabilityConstraints(answeredSpec,
                                                 [maxDimensionsMm |-> Num(120 * Unit)])} :
     \E question \in {[questions |-> questionAgent(seed, llm)]} :
       /\ interpretInput' = [seed |-> seed, llm |-> llm, answers |-> answers,
                             safety |-> [confidence |-> confidence],
                             question |-> question]
       /\ passedInputSpec' = answeredSpec
       /\ inputSpec' = specAfterConstraints(answeredSpec, [maxDimensionsMm |-> Num(120 * Unit)])
       /\ options' = [maxDimensionsMm |-> Num(120 * Unit)]
       /\ constrained' = result
       /\ interpretation' =
            [questions |-> mergeQuestions(question.questions,
                                          buildPendingQuestions(seed, result.spec, answers),
                                          answers, [confidence |-> confidence]),
             modelSpec |-> result.spec,
             adjustments |-> result.adjustments]
  /\ op' = "orchestrateInterpretation"
  /\ pc' = "done"
  /\ UNCHANGED <<extrudeVars, normalVars, genVars, outVars, stemVars, historyVars, routeVars,
                 passedOuter, passedHoles, passedSpec, wizardVars, orientVars>>

NextInterpret == OrchestrateInterpretationCall

SpecInterpret == Init /\ [][NextInterpret]_vars

InterpretDone == pc = "done" /\ op = "orchestrateInterpretation"

\* C20: the questions of the response are at most four and no two of them
\* have the same id.
C20_AtMostFour ==
  InterpretDone =>
    LET questions == interpretation.questions
    IN /\ Len(questions) <= 4
       /\ \A i \in 1..Len(questions) : \A j \in 1..Len(questions) :
            questions[i].id = questions[j].id => i = j

\* Six questions from the language model, two with one id, pending questions
\* and a low safety confidence: thickness is put first and the list cut.
C20_Witness ==
  /\ InterpretDone
  /\ Len(interpretInput.llm.questions) = 6
  /\ interpretInput.safety.confidence < 60
  /\ interpretInput.answers = {}
  /\ Len(interpretation.questions) = 4
  /\ interpretation.questions[1].id = Id("thickness")
  /\ interpretation.questions[2].id = Id("colour")
  /\ interpretation.questions[3].id = Id("finish")

(***************************************************************************)
(* HomePage (app/page.tsx): the wizard.  Of its state, the answers, the     *)
(* dimension draft, the printer profile, the object URLs and the progress  *)
(* index are left out: no handler reads them to decide the step.           *)
(***************************************************************************)
MaxQuestions == 4

\* What interpret may resolve to: a response with its number of questions.
InterpretResponses ==
  {[k |-> "object", questions |-> n, printerProfile |-> p] : n \in 0..MaxQuestions, p \in PROFILES}

\* What generate may resolve to; decodable says whether atob accepts stlBase64.
GenerateResponses == {[k |-> "object", decodable |-> d] : d \in BOOLEAN}

\* The messages of the errors lib/api.ts and fetch throw.
ErrorMessages == {"Request failed with 500", "Failed to fetch"}

wizardFrame == UNCHANGED <<callVars, extrudeVars, normalVars, genVars, outVars, stemVars,
                           historyVars, constrainVars, routeVars, passedVars, interpretVars, orientVars>>

\* setPrompt from the text area of the create step.
SetPrompt ==
  /\ step = "create"
  /\ \E blank \in BOOLEAN : promptBlank' = blank
  /\ promptBlank' # promptBlank
  /\ wizardFrame
  /\ UNCHANGED <<step, interpreted, generated, selectedProfile, isWorking, error, awaiting,
                 outcome>>

\* setPrinterProfile from the select of the refine step.
SetPrinterProfile ==
  /\ step = "refine"
  /\ interpreted # Null
  /\ \E p \in PROFILES \ {selectedProfile} : selectedProfile' = p
  /\ wizardFrame
  /\ UNCHANGED <<step, promptBlank, interpreted, generated, isWorking, error, awaiting, outcome>>

\* handleCreate up to await interpret({prompt}).
HandleCreate ==
  /\ step = "create"
  /\ ~(isWorking \/ promptBlank)
  /\ error' = Null
  /\ isWorking' = TRUE
  /\ generated' = Null
  /\ awaiting' = "handleCreate"
  /\ wizardFrame
  /\ UNCHANGED <<step, promptBlank, interpreted, selectedProfile, outcome>>

\* An interpreting handler after its await, leaving isWorking set when the
\* request fails.
InterpretSettlesStillWorking(handler) ==
  /\ awaiting = handler
  /\ \/ \E resolved \in InterpretResponses :
          /\ interpreted' = resolved
          /\ selectedProfile' = resolved.printerProfile
          /\ step' = IF resolved.questions > 0 THEN "questions" ELSE "refine"
          /\ outcome' = "ok"
          /\ isWorking' = FALSE
          /\ UNCHANGED error
     \/ \E message \in ErrorMessages :
          /\ error' = Str(message)
          /\ outcome' = "failed"
          /\ UNCHANGED <<step, interpreted, selectedProfile, isWorking>>
  /\ awaiting' = "none"
  /\ wizardFrame
  /\ UNCHANGED <<promptBlank, generated>>

\* handleCreate and handleSubmitQuestions after await interpret(...): the try
\* block on a response, the catch block on an error, and finally; the effect
\* on interpreted then sets the printer profile to the response's.
InterpretSettles(handler) ==
  /\ awaiting = handler
  /\ \/ \E resolved \in InterpretResponses :
          /\ interpreted' = resolved
          /\ selectedProfile' = resolved.printerProfile
          /\ step' = IF resolved.questions > 0 THEN "questions" ELSE "refine"
          /\ outcome' = "ok"
          /\ UNCHANGED error
     \/ \E message \in ErrorMessages :
          /\ error' = Str(message)
          /\ outcome' = "failed"
          /\ UNCHANGED <<step, interpreted, selectedProfile>>
  /\ isWorking' = FALSE
  /\ awaiting' = "none"
  /\ wizardFrame
  /\ UNCHANGED <<promptBlank, generated>>

HandleCreateSettles == InterpretSettles("handleCreate")

\* handleSubmitQuestions up to await interpret({prompt, answers, draftSpec}).
HandleSubmitQuestions ==
  /\ step = "questions"
  /\ interpreted # Null
  /\ ~isWorking
  /\ error' = Null
  /\ isWorking' = TRUE
  /\ awaiting' = "handleSubmitQuestions"
  /\ wizardFrame
  /\ UNCHANGED <<step, promptBlank, interpreted, generated, selectedProfile, outcome>>

HandleSubmitQuestionsSettles == InterpretSettles("handleSubmitQuestions")

HandleRefineContinue ==
  /\ step = "refine"
  /\ interpreted # Null
  /\ ~isWorking
  /\ interpreted' = [interpreted EXCEPT !.printerProfile = selectedProfile]
  /\ step' = "build"
  /\ wizardFrame
  /\ UNCHANGED <<promptBlank, generated, selectedProfile, isWorking, error, awaiting, outcome>>

\* handleGenerate up to await generate({modelSpec, printerProfile}).
HandleGenerate ==
  /\ step = "build"
  /\ interpreted # Null
  /\ ~isWorking
  /\ error' = Null
  /\ isWorking' = TRUE
  /\ awaiting' = "handleGenerate"
  /\ wizardFrame
  /\ UNCHANGED <<step, promptBlank, interpreted, generated, selectedProfile, outcome>>

\* handleGenerate after await generate(...): a response whose stlBase64 atob
\* rejects ends in the catch block like a failed request.
HandleGenerateSettles ==
  /\ awaiting = "handleGenerate"
  /\ \/ \E resolved \in {r \in GenerateResponses : r.decodable} :
          /\ generated' = resolved
          /\ step' = "results"
          /\ outcome' = "ok"
          /\ UNCHANGED error
     \/ \E message \in ErrorMessages \cup {"Invalid character"} :
          /\ error' = Str(message)
          /\ outcome' = "failed"
          /\ UNCHANGED <<step, generated>>
  /\ isWorking' = FALSE
  /\ awaiting' = "none"
  /\ wizardFrame
  /\ UNCHANGED <<promptBlank, interpreted, selectedProfile>>

\* resetAll, from the button of the results step.
ResetAll ==
  /\ step = "results"
  /\ interpreted # Null
  /\ generated # Null
  /\ step' = "create"
  /\ interpreted' = Null
  /\ generated' = Null
  /\ selectedProfile' = "A1_PLA_0.4"
  /\ error' = Null
  /\ wizardFrame
  /\ UNCHANGED <<promptBlank, isWorking, awaiting, outcome>>

NextWizard ==
  \/ SetPrompt
  \/ SetPrinterProfile
  \/ HandleCreate
  \/ HandleCreateSettles
  \/ HandleSubmitQuestions
  \/ HandleSubmitQuestionsSettles
  \/ HandleRefineContinue
  \/ HandleGenerate
  \/ HandleGenerateSettles
  \/ ResetAll

SpecWizard == Init /\ [][NextWizard]_vars

\* An awaited request ends in this step.
Settles == awaiting # "none" /\ awaiting' = "none"

\* The step changes along one of the edges of the flow.
StepEdge ==
  \/ /\ step \in {"create", "questions"}
     /\ Settles /\ outcome' = "ok"
     /\ awaiting = (IF step = "create" THEN "handleCreate" ELSE "handleSubmitQuestions")
     /\ step' \in {"questions", "refine"}
     /\ step' = "questions" <=> interpreted'.questions >= 1
  \/ step = "refine" /\ step' = "build"
  \/ step = "build" /\ step' = "results" /\ Settles /\ outcome' = "ok"
  \/ step = "results" /\ step' = "create" /\ ~Settles

\* C21: the step changes only along the edges create -> questions|refine,
\* questions -> questions|refine, refine -> build, build -> results and
\* results -> create; a failed request leaves the step, sets error and ends
\* with isWorking false; at results, interpreted and generated are not null.
C21_WizardFlow ==
  /\ [][/\ step' # step => StepEdge
        /\ (Settles /\ outcome' = "ok" /\ step' = step) => step = "questions"
        /\ (Settles /\ outcome' = "failed") =>
             step' = step /\ error' # Null /\ isWorking' = FALSE]_vars
  /\ [](step = "results" => interpreted # Null /\ generated # Null)

\* The results step reached after questions were asked and answered.
C21_Witness ==
  /\ step = "results"
  /\ interpreted.questions = 0
  /\ generated # Null
  /\ outcome = "ok"
  /\ ~isWorking

(***************************************************************************)
(* The triangles of extrudePolygon, one by one.                            *)
(***************************************************************************)
\* The arguments earcut was called with by the call that returned last.
EarcutBuffer == earcutMemo[Len(earcutMemo)].input[1]
EarcutHoleStarts == earcutMemo[Len(earcutMemo)].input[2]

\* The point of 0-based index i in the coordinate buffer.
BufferPoint(i) == Vec2(EarcutBuffer[2 * i + 1], EarcutBuffer[2 * i + 2])

At(point, z) == [x |-> point.x, y |-> point.y, z |-> z]

TripleCount == Len(indices) \div 3

\* C22: the k-th index triple (a, b, c) gives triangle 2k-1 = (P[a], P[b],
\* P[c]) at z = thickness and triangle 2k = (P[a], P[c], P[b]) at z = 0, P
\* being the buffer passed to earcut; the 2T cap triangles come first and
\* what follows are wall triangles, from z = 0 up to z = thickness.
C22_Caps ==
  ExtrudeDone =>
    /\ Len(triangles) >= 2 * TripleCount
    /\ \A k \in 1..TripleCount :
         LET a == indices[3 * k - 2]
             b == indices[3 * k - 1]
             c == indices[3 * k]
         IN /\ triangles[2 * k - 1] =
                 <<At(BufferPoint(a), thickness), At(BufferPoint(b), thickness),
                   At(BufferPoint(c), thickness)>>
            /\ triangles[2 * k] =
                 <<At(BufferPoint(a), 0), At(BufferPoint(c), 0), At(BufferPoint(b), 0)>>
    /\ \A k \in (2 * TripleCount + 1)..Len(triangles) :
         /\ triangles[k][1].z = 0
         /\ triangles[k][3].z = thickness

\* Two triples, one of them with a vertex of the hole.
C22_Witness ==
  /\ ExtrudeDone
  /\ thickness > 0
  /\ Len(holesRaw) = 1
  /\ TripleCount >= 2
  /\ \E k \in 1..Len(indices) : indices[k] >= Len(outerRaw)

\* The loops of the solid: the normalised outer loop, then the normalised holes.
SolidLoops == <<NormalisedOuter(outerRaw)>> \o NormalisedHoles(holesRaw)

\* The number of vertices of the loops before loop l.
VerticesBefore(l) == SumTo([g \in 1..Len(SolidLoops) |-> Len(SolidLoops[g])], l - 1)

\* C23: after the caps, loop by loop (outer, then the holes in input order)
\* and index by index, come the triangles (bottom_i, bottom_j, top_j) and
\* (bottom_i, top_j, top_i), j the index after i in the loop, wrapping; the
\* wall triangles number 2 x the sum of the loops' vertex counts.
C23_Walls ==
  ExtrudeDone =>
    /\ Len(triangles) - 2 * TripleCount = 2 * VerticesBefore(Len(SolidLoops) + 1)
    /\ \A l \in 1..Len(SolidLoops) : \A i \in 1..Len(SolidLoops[l]) :
         LET loop == SolidLoops[l]
             j == (i % Len(loop)) + 1
             at == 2 * TripleCount + 2 * VerticesBefore(l) + 2 * i
         IN /\ triangles[at - 1] = <<At(loop[i], 0), At(loop[j], 0), At(loop[j], thickness)>>
            /\ triangles[at] = <<At(loop[i], 0), At(loop[j], thickness), At(loop[i], thickness)>>

\* Two holes, one of them reversed by the normalisation.
C23_Witness ==
  /\ ExtrudeDone
  /\ thickness > 0
  /\ Len(holesRaw) = 2
  /\ NormalisedHoles(holesRaw)[1] # holesRaw[1]
  /\ Len(triangles) = 2 * TripleCount + 18

\* C25: the buffer passed to earcut holds the vertices of the normalised
\* outer loop and then of each normalised hole, two numbers per vertex, and
\* the k-th hole start is N + h1 + ... + h(k-1); the index triples are
\* resolved against the same ordering.
C25_EarcutInput ==
  ExtrudeDone =>
    /\ Len(EarcutBuffer) = 2 * VerticesBefore(Len(SolidLoops) + 1)
    /\ \A l \in 1..Len(SolidLoops) : \A i \in 1..Len(SolidLoops[l]) :
         BufferPoint(VerticesBefore(l) + i - 1) = SolidLoops[l][i]
    /\ Len(EarcutHoleStarts) = Len(holesRaw)
    /\ \A h \in 1..Len(holesRaw) : EarcutHoleStarts[h] = VerticesBefore(h + 1)
    /\ \A k \in 1..(3 * TripleCount) :
         LET corner == triangles[2 * ((k + 2) \div 3) - 1][1 + ((k - 1) % 3)]
         IN Vec2(corner.x, corner.y) = BufferPoint(indices[k])

\* Two holes and a triple returned.
C25_Witness ==
  /\ ExtrudeDone
  /\ Len(holesRaw) = 2
  /\ EarcutHoleStarts = <<3, 6>>
  /\ Len(EarcutBuffer) = 18
  /\ TripleCount = 1

(***************************************************************************)
(* enforceOrientation called on every short sequence of grid points, and   *)
(* then on its own result.                                                 *)
(***************************************************************************)
MaxOrientLen == 4

OrientPoints == {Vec2(x, y) : x \in {0, 1, 2}, y \in {0, 1}}

OrientLoops == UNION {[1..n -> OrientPoints] : n \in 0..MaxOrientLen}

orientFrame == UNCHANGED <<extrudeVars, normalVars, genVars, outVars, stemVars, historyVars,
                           constrainVars, routeVars, passedVars, interpretVars, wizardVars>>

EnforceOrientationCall ==
  /\ pc = "idle"
  /\ \E points \in OrientLoops, clockwise \in BOOLEAN :
       /\ orientPoints' = points
       /\ orientClockwise' = clockwise
       /\ oriented' = enforceOrientation(points, clockwise)
  /\ op' = "enforceOrientation"
  /\ pc' = "done"
  /\ UNCHANGED reoriented
  /\ orientFrame

EnforceOrientationAgain ==
  /\ pc = "done"
  /\ op = "enforceOrientation"
  /\ reoriented' = enforceOrientation(oriented, orientClockwise)
  /\ pc' = "again"
  /\ UNCHANGED <<op, orientPoints, orientClockwise, oriented>>
  /\ orientFrame

NextOrient ==
  \/ EnforceOrientationCall
  \/ EnforceOrientationAgain
  \/ ExtrudePolygonCall
  \/ EarcutReturn

SpecOrient == Init /\ [][NextOrient]_vars

OrientDone == op = "enforceOrientation" /\ pc \in {"done", "again"}
OrientTwice == op = "enforceOrientation" /\ pc = "again"

\* The points in the opposite order.
Backwards(points) == [i \in 1..Len(points) |-> points[Len(points) + 1 - i]]

\* Twice the shoelace sum of a loop.
Shoelace(points) ==
  LET n == Len(points)
      Cross(i) == points[i].x * points[(i % n) + 1].y - points[(i % n) + 1].x * points[i].y
  IN SumTo([i \in 1..n |-> Cross(i)], n)

\* The loop extrudePolygon passed to earcut at the vertices start+1 .. start+n.
BufferLoop(start, n) == [i \in 1..n |-> BufferPoint(start + i - 1)]

\* The loop its walls run along, read from the bottom corner each pair of wall
\* triangles starts at.
WallLoop(start, n) ==
  [i \in 1..n |-> LET corner == triangles[2 * TripleCount + 2 * (start + i) - 1][1]
                  IN Vec2(corner.x, corner.y)]

RawLoops == <<outerRaw>> \o holesRaw

RawBefore(l) == SumTo([g \in 1..Len(RawLoops) |-> Len(RawLoops[g])], l - 1)

\* C24: enforceOrientation returns the sequence it was given when the sign
\* of its shoelace area is the requested one (negative for clockwise, not
\* negative otherwise) and the reversed sequence otherwise; for a loop of
\* non-zero area the result has a negative area exactly when clockwise was
\* requested; the outer loop extrudePolygon triangulates and walls is then
\* counter-clockwise and each hole clockwise.
C24_Orientation ==
  /\ OrientDone =>
       /\ oriented = IF (Shoelace(orientPoints) < 0) = orientClockwise
                     THEN orientPoints ELSE Backwards(orientPoints)
       /\ Shoelace(orientPoints) # 0 => ((Shoelace(oriented) < 0) <=> orientClockwise)
  /\ ExtrudeDone =>
       \A l \in 1..Len(RawLoops) :
         LET used == BufferLoop(RawBefore(l), Len(RawLoops[l]))
             walled == WallLoop(RawBefore(l), Len(RawLoops[l]))
         IN /\ used = walled
            /\ used \in {RawLoops[l], Backwards(RawLoops[l])}
            /\ Shoelace(RawLoops[l]) # 0 =>
                 IF l = 1 THEN Shoelace(used) > 0 ELSE Shoelace(used) < 0

\* A loop of non-zero area that was reversed.
C24_Witness ==
  /\ OrientDone
  /\ Len(orientPoints) = 4
  /\ Shoelace(orientPoints) > 0
  /\ orientClockwise
  /\ oriented # orientPoints

\* C27 as stated: enforceOrientation applied to its own result, with the same
\* requested winding, returns that result, whatever the sequence.
C27_IdempotentAsClaimed == OrientTwice => reoriented = oriented

\* C27: enforceOrientation applied to its own result returns that result
\* when the shoelace area of the sequence is not zero, or counter-clockwise
\* was requested, or the sequence reads the same backwards.
C27_Idempotent ==
  (/\ OrientTwice
   /\ \/ Shoelace(orientPoints) # 0
      \/ ~orientClockwise
      \/ orientPoints = Backwards(orientPoints)) => reoriented = oriented

\* A reversed loop of non-zero area that the second call leaves alone.
C27_Witness ==
  /\ OrientTwice
  /\ Shoelace(orientPoints) # 0
  /\ oriented # orientPoints
  /\ reoriented = oriented

\* The corner radius of roundedSquareOutline, as the specification gives it.
CornerRadius(w, h) == Max(Dec(8, 10), Scaled(Min(w, h), 14, 100))

\* The points of the k-th corner arc of a rounded-square loop, 8 per corner.
CornerArc(loop, k) == {loop[i] : i \in (8 * k - 7)..(8 * k)}

\* The side of the corner centre a point lies on: the point is at least as
\* far from the axis as the centre is.
Beyond(centre, value) == IF centre >= 0 THEN value >= centre ELSE value <= centre

\* C26: when min(width, height)/2 exceeds the corner radius, the
\* rounded_square outline has vertices with x = +width/2, x = -width/2,
\* y = +height/2 and y = -height/2, and each corner arc lies in the corner of
\* the rectangle that holds its centre.
C26_RoundedSquareExtent ==
  (/\ GenCalled
   /\ spec.objectClass \notin {"ring", "fidget_spinner"}
   /\ spec.shape = "rounded_square"
   /\ Min(width, height) > 2 * CornerRadius(width, height)) =>
    LET r == CornerRadius(width, height)
        cx == RDiv(width, 2) - r
        cy == RDiv(height, 2) - r
        centres == <<Vec2(cx, cy), Vec2(cx, -cy), Vec2(-cx, -cy), Vec2(-cx, cy)>>
        Has(coordinate, value) ==
          \E i \in 1..Len(outerRaw) : Abs(outerRaw[i][coordinate] - value) <= 1
    IN /\ Len(outerRaw) = 32
       /\ Has("x", RDiv(width, 2))
       /\ Has("x", -RDiv(width, 2))
       /\ Has("y", RDiv(height, 2))
       /\ Has("y", -RDiv(height, 2))
       /\ \A k \in 1..4 : \A point \in CornerArc(outerRaw, k) :
            /\ Beyond(centres[k].x, point.x)
            /\ Beyond(centres[k].y, point.y)

(***************************************************************************)
(* The route POST /api/v1/generate on rings, earrings, pendants and        *)
(* spinners: applyPrintabilityConstraints, then generateStl on the spec it *)
(* returned.                                                               *)
(***************************************************************************)
PipelineDimensions(w, h, od, bw, hd) ==
  Object([f \in DimensionFields |->
            CASE f = "width" -> w
              [] f = "height" -> h
              [] f = "outer_diameter" -> od
              [] f = "band_width" -> bw
              [] f = "hole_diameter" -> hd
              [] OTHER -> Undefined])

PipelineBody(objectClass, dimensionsMm) ==
  Payload(ModelSpecBody(Str(objectClass), Str("circle"), dimensionsMm, NoFlags,
                        Str("A1_PLA_0.4")),
          Str("A1_PLA_0.4"))

RingRequests ==
  {PipelineBody("ring", PipelineDimensions(Undefined, Undefined, od, bw, Undefined)) :
     od \in {Undefined, Num(6 * Unit), Num(8 * Unit), Num(10 * Unit), Num(30 * Unit)},
     bw \in {Undefined, Num(Unit \div 2), Num(2 * Unit)}}

HangingRequests ==
  {PipelineBody(c, PipelineDimensions(Num(w), h, Undefined, Undefined, hd)) :
     c \in {"earring", "pendant"},
     w \in {3 * Unit, 20 * Unit},
     h \in {Undefined, Num(3 * Unit), Num(30 * Unit)},
     hd \in {Undefined, Num(Unit), Num(4 * Unit), Num(12 * Unit)}}

SpinnerRequests ==
  {PipelineBody("fidget_spinner", PipelineDimensions(w, Undefined, Undefined, Undefined, hd)) :
     w \in {Undefined, Num(20 * Unit), Num(30 * Unit)},
     hd \in {Undefined, Num(8 * Unit), Num(22 * Unit)}}

PipelineRequests == RingRequests \cup HangingRequests \cup SpinnerRequests

PostPipelineCall ==
  /\ pc = "idle"
  /\ Post(PipelineRequests)

NextPipeline == PostPipelineCall \/ EarcutReturn \/ EarcutThrows

SpecPipeline == Init /\ [][NextPipeline]_vars

\* generateStl was called by the route on the spec the constraints returned.
Piped(classes) ==
  /\ request # NoRequest
  /\ spec # NoSpec
  /\ spec = constrained.spec
  /\ spec.objectClass \in classes

Top(loop) == MaxOf({loop[i].y : i \in 1..Len(loop)})
Bottom(loop) == MinOf({loop[i].y : i \in 1..Len(loop)})

\* C28: for a ring spec the constraints returned and generateStl was given,
\* the hole loop is narrower than the outer loop: max(outer_diameter -
\* 2 band_width, 8) < outer_diameter, with the defaults 22 and 4.
C28_RingBand ==
  Piped({"ring"}) =>
    LET outerDiameter == FiniteOr(spec.dimensionsMm.outer_diameter, 22 * Unit)
        bandWidth == FiniteOr(spec.dimensionsMm.band_width, 4 * Unit)
    IN /\ Max(outerDiameter - 2 * bandWidth, 8 * Unit) < outerDiameter
       /\ Len(holesRaw) = 1
       /\ BoundingWidth(holesRaw[1]) < BoundingWidth(outerRaw)

\* C29: for an earring or pendant spec the constraints returned, the hanging
\* hole lies within the rectangle of the resolved width and height: its top
\* is not above height/2, its bottom not below -height/2 and it is not wider
\* than the width; for a spinner the centre hole's radius is below 0.23 x
\* min(width, height).
C29_HolesInside ==
  /\ Piped({"earring", "pendant"}) =>
       /\ Len(holesRaw) = 1
       /\ Top(holesRaw[1]) <= RDiv(height, 2)
       /\ Bottom(holesRaw[1]) >= -RDiv(height, 2)
       /\ BoundingWidth(holesRaw[1]) <= width
  /\ Piped({"fidget_spinner"}) =>
       /\ Len(holesRaw) = 1
       /\ 2 * BoundingWidth(holesRaw[1]) < 4 * Scaled(Min(width, height), 23, 100)

\* C30: mergeQuestions returns no question whose id is a key of the answers,
\* and when the safety confidence is below 0.6 and thickness is not a key of
\* the answers, the list it returns has a question with the id thickness.
C30_MergeQuestions ==
  InterpretDone =>
    LET questions == interpretation.questions
        ids == {questions[i].id : i \in 1..Len(questions)}
    IN /\ ids \cap interpretInput.answers = {}
       /\ (/\ interpretInput.safety.confidence < 60
           /\ Id("thickness") \notin interpretInput.answers) => Id("thickness") \in ids

====
